---- MODULE Spec2Model ----
(***************************************************************************)
(* Model of the MIBI preprocessing pipeline                                *)
(*   src/bin/preprocess_cell_type_classification.py        ("celltype")    *)
(*   src/bin/preprocess_functional_marker_classification.py ("fm")         *)
(*   src/scripts/preprocess-training-data.py               ("script")      *)
(* Python strings are TLA+ strings (Len, SubSeq and \o work on them), a    *)
(* table is a sequence of named columns, a cell is a record.               *)
(***************************************************************************)
EXTENDS Integers, Sequences, FiniteSets, TLC

VARIABLES variant, pc, args, input_df, expression_df, found_cell_types,
          cell_types, encoder, decoder, markers, disk, error, result

vars == <<variant, pc, args, input_df, expression_df, found_cell_types,
          cell_types, encoder, decoder, markers, disk, error, result>>

(***************************************************************************)
(* Python values                                                           *)
(***************************************************************************)
\* Python None / an optional value
None == <<>>
Some(x) == <<x>>
IsNone(o) == o = <<>>
Get(o) == o[1]

(***************************************************************************)
(* str                                                                     *)
(***************************************************************************)
\* the characters the model's strings use, in code point order
Alphabet == " ()+-.0123456789:ABCDEFGHIJKLMNOPQRSTUVWXYZ^_abcdefghijklmnopqrstuvwxyzµÂ"

Char(s, i) == SubSeq(s, i, i)

\* ord(c)
Ord(c) == CHOOSE i \in 1..Len(Alphabet) : Char(Alphabet, i) = c

\* str.isdigit for one character, as the regex class \d
IsDigit(c) == c \in {"0", "1", "2", "3", "4", "5", "6", "7", "8", "9"}

\* s[i-1:].startswith(pat)
StartsAt(s, pat, i) ==
    /\ i + Len(pat) - 1 <= Len(s)
    /\ SubSeq(s, i, i + Len(pat) - 1) = pat

\* pat in s
Contains(s, pat) == \E i \in 1..(Len(s) - Len(pat) + 1) : StartsAt(s, pat, i)

RECURSIVE ReplaceFrom(_, _, _, _)
ReplaceFrom(s, pat, rep, i) ==
    IF i > Len(s) THEN ""
    ELSE IF StartsAt(s, pat, i)
         THEN rep \o ReplaceFrom(s, pat, rep, i + Len(pat))
         ELSE Char(s, i) \o ReplaceFrom(s, pat, rep, i + 1)

\* s.replace(pat, rep): every non-overlapping occurrence, left to right
Replace(s, pat, rep) == ReplaceFrom(s, pat, rep, 1)

RECURSIVE ReplaceFirstFrom(_, _, _, _)
ReplaceFirstFrom(s, pat, rep, i) ==
    IF i > Len(s) THEN ""
    ELSE IF StartsAt(s, pat, i)
         THEN rep \o SubSeq(s, i + Len(pat), Len(s))
         ELSE Char(s, i) \o ReplaceFirstFrom(s, pat, rep, i + 1)

RECURSIVE StrLessFrom(_, _, _)
StrLessFrom(a, b, i) ==
    IF i > Len(b) THEN FALSE
    ELSE IF i > Len(a) THEN TRUE
    ELSE IF Char(a, i) = Char(b, i) THEN StrLessFrom(a, b, i + 1)
    ELSE Ord(Char(a, i)) < Ord(Char(b, i))

\* a < b on str (lexicographic by code point)
StrLess(a, b) == StrLessFrom(a, b, 1)

(***************************************************************************)
(* Sequences                                                               *)
(***************************************************************************)
SeqToSet(q) == {q[i] : i \in 1..Len(q)}

\* sorted(S) for a set of str
RECURSIVE sorted(_)
sorted(S) ==
    IF S = {} THEN <<>>
    ELSE LET m == CHOOSE x \in S : \A y \in S \ {x} : StrLess(x, y)
         IN <<m>> \o sorted(S \ {m})

(***************************************************************************)
(* Numbers: a float is modelled exactly, as a fraction in lowest terms     *)
(* (IEEE rounding is not modelled); NaN is the missing value of pandas.    *)
(***************************************************************************)
RECURSIVE GCD(_, _)
GCD(a, b) == IF b = 0 THEN a ELSE GCD(b, a % b)

Rat(n, d) ==
    LET Abs(x) == IF x < 0 THEN -x ELSE x
    IN
             LET g == GCD(Abs(n), d) IN [n |-> n \div g, d |-> d \div g]
Num(n) == [n |-> n, d |-> 1]
NaN == [nan |-> TRUE]
Str(s) == [s |-> s]

\* pandas isnull() of one cell
isnull(v) == v = NaN

\* a * b, NaN propagating
Mul(a, b) == IF isnull(a) \/ isnull(b) THEN NaN ELSE Rat(a.n * b.n, a.d * b.d)

(***************************************************************************)
(* pandas.DataFrame: a sequence of columns [name, values]; names may       *)
(* repeat. A Series is the same with one column and type "Series".         *)
(***************************************************************************)
DataFrame(cols) == [type |-> "DataFrame", cols |-> cols]
Series(col) == [type |-> "Series", cols |-> <<col>>]
Column(name, values) == [name |-> name, values |-> values]

\* expression_df.columns
columns(df) == [i \in 1..Len(df.cols) |-> df.cols[i].name]
NRows(df) == IF Len(df.cols) = 0 THEN 0 ELSE Len(df.cols[1].values)
HasColumn(df, name) == \E i \in 1..Len(df.cols) : df.cols[i].name = name
\* the first column of that name
ColIdx(df, name) == CHOOSE i \in 1..Len(df.cols) :
                        /\ df.cols[i].name = name
                        /\ \A j \in 1..(i - 1) : df.cols[j].name # name
Col(df, name) == df.cols[ColIdx(df, name)].values

RECURSIVE FilterCols(_, _, _)
FilterCols(cols, keep, i) ==
    IF i > Len(cols) THEN <<>>
    ELSE (IF cols[i].name \in keep THEN <<cols[i]>> ELSE <<>>)
         \o FilterCols(cols, keep, i + 1)

\* expression_df.drop(columns=names): every column of one of these names goes
drop(df, names) == DataFrame(FilterCols(df.cols, SeqToSet(columns(df)) \ names, 1))

\* expression_df.loc[:, names] for names taken from the frame's own columns,
\* in column order (a list comprehension over expression_df.columns)
SelectCols(df, names) == DataFrame(FilterCols(df.cols, names, 1))

(***************************************************************************)
(* remove_dots                                                             *)
(***************************************************************************)
specific_matches == <<
    <<"MHC.I..", "MHC I (">>,
    <<"MHC.II..", "MHC II (">>,
    <<"MHC_I_.", "MHC_I_(">>,
    <<"MHC_II_.", "MHC_II_(">>,
    <<"Target.", "Target:">>,
    <<"Beta.Tubulin", "Beta-Tubulin">>,
    <<"IFN.y", "IFN-y">>,
    <<"HLA.DR", "HLA-DR">> >>

RECURSIVE ApplySpecific(_, _)
ApplySpecific(col, k) ==
    IF k > Len(specific_matches) THEN col
    ELSE ApplySpecific(Replace(col, specific_matches[k][1], specific_matches[k][2]), k + 1)

\* a seeded fault: every period becomes a space
RECURSIVE SubEveryPeriodFrom(_, _)
SubEveryPeriodFrom(col, i) ==
    IF i > Len(col) THEN ""
    ELSE (IF Char(col, i) = "." THEN " " ELSE Char(col, i))
         \o SubEveryPeriodFrom(col, i + 1)

\* re.sub("(?<!\d)\.(?!\d)", " ", col): a period with no digit right before
\* it and no digit right after it becomes a space
RECURSIVE SubLonePeriodFrom(_, _)
SubLonePeriodFrom(col, i) ==
    IF i > Len(col) THEN ""
    ELSE (IF /\ Char(col, i) = "."
             /\ ~(i > 1 /\ IsDigit(Char(col, i - 1)))
             /\ ~(i < Len(col) /\ IsDigit(Char(col, i + 1)))
          THEN " " ELSE Char(col, i))
         \o SubLonePeriodFrom(col, i + 1)

SubLonePeriod(col) == SubLonePeriodFrom(col, 1)

\* the rewrite remove_dots applies to one column name, statement by statement
remove_dots_name(col) ==
    LET c1 == Replace(col, "Âµm", "µm")
        c2 == Replace(c1, "µm.2", "µm^2")
        c3 == ApplySpecific(c2, 1)
        c4 == Replace(c3, "...", "): ")
        c5 == Replace(c4, "..", ": ")
        c6 == Replace(c5, "Std.Dev.", "STD_DEV_PLACEHOLDER")
        c7 == SubLonePeriod(c6)
    IN Replace(c7, "STD_DEV_PLACEHOLDER", "Std.Dev.")

\* a seeded fault: the columns come back in reverse order
remove_dots_reversed(df) ==
    DataFrame([i \in 1..Len(df.cols) |->
                  Column(remove_dots_name(df.cols[Len(df.cols) + 1 - i].name),
                         df.cols[Len(df.cols) + 1 - i].values)])

remove_dots(df) ==
    DataFrame([i \in 1..Len(df.cols) |->
                  Column(remove_dots_name(df.cols[i].name), df.cols[i].values)])

(***************************************************************************)
(* Calls of one function on inputs drawn from bounded sets: every          *)
(* variable the call does not use stays at None.                           *)
(***************************************************************************)
NoDisk == [f \in {} |-> None]

UnitInit(fn, df, a) ==
    /\ variant = "unit"
    /\ pc = fn
    /\ args = a
    /\ input_df = df
    /\ expression_df = df
    /\ found_cell_types = None
    /\ cell_types = None
    /\ encoder = None
    /\ decoder = None
    /\ markers = None
    /\ disk = NoDisk
    /\ error = None
    /\ result = None

UnitFrame == <<variant, args, input_df, found_cell_types, cell_types, encoder,
               decoder, markers, disk>>

(***************************************************************************)
(* SpecDots: remove_dots on raw column names                               *)
(***************************************************************************)
\* longest run of characters put before and after a token of a raw name
MaxCtx == 2

RECURSIVE Words(_)
Words(n) ==
    LET
        CtxChars == {".", "1", "x"}
    IN
    IF n = 0 THEN {""}
    ELSE Words(n - 1) \cup {w \o c : w \in Words(n - 1), c \in CtxChars}

\* raw names as R's make.names leaves them in a QuPath export
ExportedNames == {
    "Image", "Class", "Centroid.X.Âµm", "Centroid.Y.px", "Nucleus..Area.µm.2",
    "CD3..Cell..Std.Dev.", "CD3..Cell..Percentile..99.9", "Target.CD4..Cell..Mean",
    "MHC.I..HLA.Class.1...Cell..Mean", "HLA.DR..Nucleus..Median",
    "DNA.1..Cell..Mean" }

DotsInit ==
    LET
        RawNames ==
            LET
                \* the tokens put between two runs of characters
                DotTokens == {"Std.Dev.", "9.9"}
            IN
            ExportedNames
            \cup {a \o t \o b : a \in Words(MaxCtx), b \in Words(MaxCtx), t \in DotTokens}
    IN
    \/ \E raw \in RawNames :
          UnitInit("remove_dots",
                   DataFrame(<<Column("Image", <<Str("roi1")>>), Column(raw, <<Num(1)>>)>>),
                   None)
    \/ \E raw1 \in ExportedNames, raw2 \in ExportedNames :
          UnitInit("remove_dots",
                   DataFrame(<<Column("Image", <<Str("roi1")>>), Column(raw1, <<Num(1)>>),
                               Column(raw2, <<Num(2)>>)>>),
                   None)

Call_remove_dots ==
    /\ pc = "remove_dots"
    /\ expression_df' = remove_dots(expression_df)
    /\ pc' = "returned"
    /\ UNCHANGED <<error, result>>
    /\ UNCHANGED UnitFrame

\* the raw table is read again and handed to remove_dots a second time
Call_remove_dots_again ==
    /\ pc = "returned"
    /\ result' = Some(remove_dots(input_df))
    /\ pc' = "returned again"
    /\ UNCHANGED <<expression_df, error>>
    /\ UNCHANGED UnitFrame

DotsNext == Call_remove_dots \/ Call_remove_dots_again

SpecDots == DotsInit /\ [][DotsNext]_vars

RECURSIVE CountFrom(_, _, _)
CountFrom(s, pat, i) ==
    IF i > Len(s) THEN 0
    ELSE IF StartsAt(s, pat, i) THEN 1 + CountFrom(s, pat, i + Len(pat))
    ELSE CountFrom(s, pat, i + 1)

\* s.count(pat)
Count(s, pat) == CountFrom(s, pat, 1)

\* C10: every occurrence of "Std.Dev." in a raw column name is still there,
\* as "Std.Dev.", in the name remove_dots returns, whatever surrounds it.
C10_StdDevKept ==
    (pc = "returned" /\ variant = "unit" /\ error = None /\ Len(input_df.cols) = 2) =>
        \A i \in 1..Len(input_df.cols) :
            Count(expression_df.cols[i].name, "Std.Dev.")
                >= Count(input_df.cols[i].name, "Std.Dev.")

\* the period at position i of s has a digit right before and right after it
DecimalPoint(s, i) ==
    /\ Char(s, i) = "."
    /\ i > 1 /\ IsDigit(Char(s, i - 1))
    /\ i < Len(s) /\ IsDigit(Char(s, i + 1))

\* C11: a single period of a raw name with a digit right before it and a digit
\* right after it is kept: the normalized name is the normalized text up to
\* the period, the period, and the normalized text after it.
C11_DecimalPointKept ==
    (pc = "returned" /\ variant = "unit") =>
        \A c \in 1..Len(input_df.cols) :
            LET raw == input_df.cols[c].name
            IN \A i \in 1..Len(raw) :
                  DecimalPoint(raw, i) =>
                      expression_df.cols[c].name =
                          remove_dots_name(SubSeq(raw, 1, i - 1)) \o "."
                              \o remove_dots_name(SubSeq(raw, i + 1, Len(raw)))

C11_Witness ==
    /\ pc = "returned"
    /\ Len(input_df.cols) = 2
    /\ input_df.cols[2].name = "CD3..Cell..Percentile..99.9"
    /\ expression_df.cols[2].name = "CD3: Cell: Percentile: 99.9"

\* C12: every period left in a normalized name is a decimal point between two
\* digits or a period of "Std.Dev.".
C12_RemainingPeriods ==
    LET
        \* position i of s lies in an occurrence of pat
        Within(s, pat, i) ==
            \E k \in 1..Len(s) : StartsAt(s, pat, k) /\ k <= i /\ i < k + Len(pat)
    IN
    (pc = "returned" /\ variant = "unit") =>
        \A c \in 1..Len(expression_df.cols) :
            LET name == expression_df.cols[c].name
            IN \A i \in 1..Len(name) :
                  Char(name, i) = "." =>
                      DecimalPoint(name, i) \/ Within(name, "Std.Dev.", i)

WriteFile_alone(d, f, content) == (f :> content)

WriteFile(d, f, content) == (f :> content) @@ d

\* the last (0-based) position of l in the list: a dict comprehension keeps
\* the last value given for a key
LastIndex(ct, l) ==
    CHOOSE i \in 0..(Len(ct) - 1) :
        /\ ct[i + 1] = l
        /\ \A j \in (i + 1)..(Len(ct) - 1) : ct[j + 1] # l

\* a seeded fault: indices counted from 1
create_encoder_decoder_from1(ct) ==
    [encoder |-> [l \in SeqToSet(ct) |-> LastIndex(ct, l) + 1],
     decoder |-> [i \in 0..(Len(ct) - 1) |-> ct[i + 1]]]

create_encoder_decoder(ct) ==
    [encoder |-> [l \in SeqToSet(ct) |-> LastIndex(ct, l)],
     decoder |-> [i \in 0..(Len(ct) - 1) |-> ct[i + 1]]]

(***************************************************************************)
(* SpecEnc: create_encoder_decoder on sorted label lists                   *)
(***************************************************************************)
\* most labels in one list
MaxLabels == 4

EncInit ==
    LET
        Labels == {"B cell", "B cells", "CD4 T cells", "Other", "Tumour", "Unknown", "other"}
    IN
    \E S \in SUBSET Labels :
        /\ Cardinality(S) <= MaxLabels
        /\ UnitInit("create_encoder_decoder", DataFrame(<<>>), [cell_types |-> sorted(S)])

Call_create_encoder_decoder ==
    /\ pc = "create_encoder_decoder"
    /\ LET r == create_encoder_decoder(args.cell_types)
       IN /\ result' = Some(r)
          /\ disk' = WriteFile(disk, "decoder.json", r.decoder)
    /\ pc' = "returned"
    /\ UNCHANGED <<variant, args, input_df, expression_df, found_cell_types,
                   cell_types, encoder, decoder, markers, error>>

SpecEnc == EncInit /\ [][Call_create_encoder_decoder]_vars

\* C9: for a sorted list of N distinct labels the encoder and the decoder are
\* mutually inverse bijections between the labels and exactly 0..N-1, and the
\* index order is the alphabetical order of the labels.
C9_EncoderDecoderBijection ==
    (pc = "returned" /\ ~IsNone(result)) =>
        LET enc == Get(result).encoder
            dec == Get(result).decoder
            N == Len(args.cell_types)
        IN /\ DOMAIN dec = 0..(N - 1)
           /\ DOMAIN enc = SeqToSet(args.cell_types)
           /\ Cardinality(DOMAIN enc) = N
           /\ \A l \in DOMAIN enc : enc[l] \in 0..(N - 1) /\ dec[enc[l]] = l
           /\ \A i \in DOMAIN dec : dec[i] \in DOMAIN enc /\ enc[dec[i]] = i
           /\ \A i, j \in DOMAIN dec : i < j => StrLess(dec[i], dec[j])

C9_Witness ==
    /\ pc = "returned"
    /\ ~IsNone(result)
    /\ args.cell_types = <<"B cells", "Other", "Unknown">>
    /\ Get(result).decoder = (0 :> "B cells" @@ 1 :> "Other" @@ 2 :> "Unknown")

(***************************************************************************)
(* remove_duplicate_columns                                                *)
(***************************************************************************)

RECURSIVE SumPresent(_, _)
SumPresent(vals, i) ==
    LET
        Add(a, b) == Rat(a.n * b.d + b.n * a.d, a.d * b.d)
    IN
    IF i > Len(vals) THEN Num(0)
    ELSE IF isnull(vals[i]) THEN SumPresent(vals, i + 1)
    ELSE Add(vals[i], SumPresent(vals, i + 1))

CountPresent(vals) == Cardinality({i \in 1..Len(vals) : ~isnull(vals[i])})

\* a seeded fault: a missing value counts as 0 in the mean
mean_nan_as_zero(vals) ==
    IF Len(vals) = 0 THEN NaN
    ELSE LET t == SumPresent(vals, 1) IN Rat(t.n, t.d * Len(vals))

\* the mean pandas takes over a group: missing values are skipped, and the
\* mean of nothing is missing
mean(vals) ==
    IF CountPresent(vals) = 0 THEN NaN
    ELSE LET t == SumPresent(vals, 1) IN Rat(t.n, t.d * CountPresent(vals))

\* expression_df.columns[expression_df.columns.duplicated()]: the name of every
\* column that repeats an earlier one (a name of a group of k appears k-1 times)
RECURSIVE duplicated_names(_, _)
duplicated_names(df, i) ==
    IF i > Len(df.cols) THEN <<>>
    ELSE (IF \E j \in 1..(i - 1) : df.cols[j].name = df.cols[i].name
          THEN <<df.cols[i].name>> ELSE <<>>)
         \o duplicated_names(df, i + 1)

\* expression_df[names]: for each listed name, in list order, every column of
\* that name
RECURSIVE getitem(_, _, _)
getitem(df, names, k) ==
    IF k > Len(names) THEN <<>>
    ELSE FilterCols(df.cols, {names[k]}, 1) \o getitem(df, names, k + 1)

\* df.groupby(df.columns, axis=1).mean(): one column per name, names sorted
groupby_mean(cols) ==
    LET keys == sorted({cols[i].name : i \in 1..Len(cols)})
        n == IF Len(cols) = 0 THEN 0 ELSE Len(cols[1].values)
        group(name) == FilterCols(cols, {name}, 1)
    IN [k \in 1..Len(keys) |->
          Column(keys[k],
                 [r \in 1..n |->
                     mean([c \in 1..Len(group(keys[k])) |-> group(keys[k])[c].values[r]])])]

\* a seeded fault: colliding columns are left as they are
remove_duplicate_columns_keep(df) == df

\* a seeded fault: the merged columns come first
remove_duplicate_columns_merged_first(df) ==
    LET duplicated_cols == duplicated_names(df, 1)
        expression_df_duplicated == groupby_mean(getitem(df, duplicated_cols, 1))
    IN DataFrame(expression_df_duplicated \o drop(df, SeqToSet(duplicated_cols)).cols)

remove_duplicate_columns(df) ==
    LET duplicated_cols == duplicated_names(df, 1)
        expression_df_duplicated == groupby_mean(getitem(df, duplicated_cols, 1))
    IN DataFrame(drop(df, SeqToSet(duplicated_cols)).cols \o expression_df_duplicated)

(***************************************************************************)
(* SpecDup: remove_duplicate_columns on tables with colliding names        *)
(***************************************************************************)
\* most columns of a table handed to remove_duplicate_columns
MaxDupCols == 3

\* the collision of the specification's example: rows [1,NaN] [NaN,3] [2,4] [NaN,NaN]
ExampleCollision ==
    DataFrame(<<Column("CD3: Cell: Mean", <<Num(1), NaN, Num(2), NaN>>),
                Column("CD8: Cell: Mean", <<Num(7), Num(7), Num(7), Num(7)>>),
                Column("CD3: Cell: Mean", <<NaN, Num(3), Num(4), NaN>>)>>)

DupInit ==
    LET
        DupValues == {NaN, Num(1), Num(2), Num(4)}
    IN
    LET
        DupNames == {"CD3: Cell: Mean", "CD8: Cell: Mean"}
    IN
    \/ UnitInit("remove_duplicate_columns", ExampleCollision, None)
    \/ \E names \in {<<"CD8: Cell: Mean", "CD3: Cell: Mean", "CD4: Cell: Mean",
                        "CD3: Cell: Mean">>,
                      <<"CD8: Cell: Mean", "CD4: Cell: Mean", "CD8: Cell: Mean",
                        "CD4: Cell: Mean">>,
                      <<"CD8: Cell: Mean", "CD3: Cell: Mean", "CD4: Cell: Mean">>},
          vals \in [1..4 -> {NaN, Num(1)}] :
          UnitInit("remove_duplicate_columns",
                   DataFrame([i \in 1..Len(names) |-> Column(names[i], <<vals[i], Num(i)>>)]),
                   None)
    \/ \E k \in 1..MaxDupCols :
       \E names \in [1..k -> DupNames], vals \in [1..k -> DupValues] :
          UnitInit("remove_duplicate_columns",
                   DataFrame([i \in 1..k |-> Column(names[i], <<vals[i]>>)]),
                   None)

Call_remove_duplicate_columns ==
    /\ pc = "remove_duplicate_columns"
    /\ expression_df' = remove_duplicate_columns(expression_df)
    /\ pc' = "returned"
    /\ UNCHANGED <<error, result>>
    /\ UNCHANGED UnitFrame

SpecDup == DupInit /\ [][Call_remove_duplicate_columns]_vars

\* C7: for every group of two or more columns sharing a name and every row, the
\* merged value is missing if all source values are missing, the one present
\* value if exactly one is present, and the arithmetic mean of the present
\* values otherwise.
C7_MergedValueIsMeanOfPresent ==
    LET
        \* the values the columns named name hold in row r of df
        RowOf(df, name, r) ==
            LET g == FilterCols(df.cols, {name}, 1) IN [c \in 1..Len(g) |-> g[c].values[r]]
    IN
    (pc = "returned" /\ variant = "unit" /\ NRows(input_df) > 0) =>
        \A name \in SeqToSet(columns(input_df)) :
            Len(FilterCols(input_df.cols, {name}, 1)) >= 2 =>
                /\ Len(FilterCols(expression_df.cols, {name}, 1)) = 1
                /\ \A r \in 1..NRows(input_df) :
                      LET src == RowOf(input_df, name, r)
                          present == {c \in 1..Len(src) : ~isnull(src[c])}
                          out == Col(expression_df, name)[r]
                          total == SumPresent(src, 1)
                      IN /\ present = {} => isnull(out)
                         /\ Cardinality(present) = 1 =>
                                \A c \in present : out = src[c]
                         /\ Cardinality(present) >= 2 =>
                                /\ ~isnull(out)
                                /\ out.n * total.d * Cardinality(present) = total.n * out.d

C7_Witness ==
    /\ pc = "returned"
    /\ input_df = ExampleCollision
    /\ Col(expression_df, "CD3: Cell: Mean") = <<Num(1), Num(3), Num(3), NaN>>

\* C27: remove_duplicate_columns returns the columns whose name occurs once,
\* with their names and values and in their order, followed by one column for
\* each duplicated name and nothing else; every column has as many rows as the
\* table had; and a table without a duplicated name comes back as it was.
C27_UniqueColumnsUntouched ==
    (pc = "returned" /\ variant = "unit") =>
        LET occurrences(name) == Len(FilterCols(input_df.cols, {name}, 1))
            once(c) == occurrences(c.name) = 1
            unique_cols == SelectSeq(input_df.cols, once)
            duplicated == {n \in SeqToSet(columns(input_df)) : occurrences(n) > 1}
            out == expression_df.cols
        IN /\ Len(out) = Len(unique_cols) + Cardinality(duplicated)
           /\ SubSeq(out, 1, Len(unique_cols)) = unique_cols
           /\ {out[i].name : i \in (Len(unique_cols) + 1)..Len(out)} = duplicated
           /\ \A i \in 1..Len(out) : Len(out[i].values) = NRows(input_df)
           /\ duplicated = {} => expression_df = input_df

\* CD8 and CD4 occur once and keep their order; the merged CD3 column is last
C27_Witness ==
    /\ pc = "returned"
    /\ columns(input_df) = <<"CD8: Cell: Mean", "CD3: Cell: Mean", "CD4: Cell: Mean",
                             "CD3: Cell: Mean">>
    /\ columns(expression_df) = <<"CD8: Cell: Mean", "CD4: Cell: Mean", "CD3: Cell: Mean">>
    /\ expression_df.cols[1] = input_df.cols[1]
    /\ expression_df.cols[2] = input_df.cols[3]
    /\ Col(expression_df, "CD3: Cell: Mean") = <<Num(1), Num(3)>>

(***************************************************************************)
(* collect_markers, drop_markers (cell type variant)                       *)
(***************************************************************************)
RECURSIVE collect_markers_from(_, _)
collect_markers_from(df, i) ==
    IF i > Len(df.cols) THEN <<>>
    ELSE (IF Contains(df.cols[i].name, "Cell: Mean")
          THEN <<Replace(df.cols[i].name, ": Cell: Mean", "")>> ELSE <<>>)
         \o collect_markers_from(df, i + 1)

collect_markers(df) == collect_markers_from(df, 1)

\* [s + ": " for s in markers if s not in excluded_markers], as a set of tokens
kept_tokens(mk, excluded_markers) ==
    {mk[i] \o ": " : i \in {j \in 1..Len(mk) : mk[j] \notin excluded_markers}}

\* a seeded fault: a drop list on the bare marker name instead of a keep list
\* on "<marker>: "
measurement_columns_drop_bare(df, mk, excluded_markers) ==
    {df.cols[i].name : i \in {j \in 1..Len(df.cols) :
        ~\E m \in excluded_markers : Contains(df.cols[j].name, m)}}

\* [col for col in expression_df.columns if any(map(col.__contains__, markers_))]
measurement_columns(df, mk, excluded_markers) ==
    {df.cols[i].name : i \in {j \in 1..Len(df.cols) :
        \E t \in kept_tokens(mk, excluded_markers) : Contains(df.cols[j].name, t)}}

\* a seeded fault: the marker filter leaves the table as it is
drop_markers_nothing(df, mk, excluded_markers) == df

\* a seeded fault: the Class column is kept along with the measurements
drop_markers_keep_class(df, mk, excluded_markers) ==
    SelectCols(df, measurement_columns(df, mk, excluded_markers) \cup {"Class"})

drop_markers(df, mk, excluded_markers) ==
    SelectCols(df, measurement_columns(df, mk, excluded_markers))

(***************************************************************************)
(* SpecMarkers: drop_markers on tables of measurement columns              *)
(***************************************************************************)
\* most markers in one exclusion set
MaxExcluded == 2

MarkerColumnNames == <<
    "Image",
    "CD4: Cell: Mean", "CD4: Nucleus: Median",
    "CD45: Cell: Mean", "CD45: Nucleus: Median",
    "PDCD4: Cell: Mean", "PDCD4: Nucleus: Median" >>

\* the table holding the listed columns, in the order of MarkerColumnNames,
\* column i carrying the value i in its one row
MarkerTable(present) ==
    DataFrame(FilterCols([i \in 1..Len(MarkerColumnNames) |->
                             Column(MarkerColumnNames[i], <<Num(i)>>)],
                         present, 1))

MarkersInit ==
    LET
        \* PDCD4 (programmed cell death 4) ends in CD4, CD45 starts with it
        MarkerNames == {"CD4", "CD45", "PDCD4"}
    IN
    \E present \in SUBSET SeqToSet(MarkerColumnNames), excl \in SUBSET MarkerNames :
        /\ Cardinality(excl) <= MaxExcluded
        /\ UnitInit("drop_markers", MarkerTable(present),
                    [markers |-> collect_markers(MarkerTable(present)),
                     excluded_markers |-> excl])

Call_drop_markers ==
    /\ pc = "drop_markers"
    /\ expression_df' = drop_markers(expression_df, args.markers, args.excluded_markers)
    /\ pc' = "returned"
    /\ UNCHANGED <<error, result>>
    /\ UNCHANGED UnitFrame

SpecMarkers == MarkersInit /\ [][Call_drop_markers]_vars

\* C5: with CD4 and CD45 both collected and the exclusion set {"CD4"}, every
\* "CD45: ..." column is kept, with its values, and every "CD4: ..." column is
\* removed.
C5_ExcludingCD4KeepsCD45 ==
    (/\ pc = "returned"
     /\ variant = "unit"
     /\ args.excluded_markers = {"CD4"}
     /\ {"CD4", "CD45"} \subseteq SeqToSet(args.markers)) =>
        /\ HasColumn(expression_df, "CD45: Cell: Mean")
        /\ \A i \in 1..Len(input_df.cols) :
              StartsAt(input_df.cols[i].name, "CD45: ", 1) =>
                  \E j \in 1..Len(expression_df.cols) :
                      expression_df.cols[j] = input_df.cols[i]
        /\ \A j \in 1..Len(expression_df.cols) :
              ~StartsAt(expression_df.cols[j].name, "CD4: ", 1)

C5_Witness ==
    /\ pc = "returned"
    /\ args.excluded_markers = {"CD4"}
    /\ HasColumn(input_df, "CD4: Cell: Mean")
    /\ HasColumn(input_df, "CD4: Nucleus: Median")
    /\ HasColumn(input_df, "CD45: Nucleus: Median")
    /\ columns(expression_df) = <<"CD45: Cell: Mean", "CD45: Nucleus: Median">>

\* C30: the output of drop_markers is the columns whose name contains
\* "<m>: " for a collected marker m that is not excluded, in their order and
\* with their values; so no identity column is in it, and no measurement
\* column "<x>: ..." of a marker x that has no "<x>: Cell: Mean" column.
C30_KeepListOfCollectedMarkers ==
    (pc = "returned" /\ variant = "unit") =>
        LET collected == {m \in {"CD4", "CD45", "PDCD4"} :
                             HasColumn(input_df, m \o ": Cell: Mean")}
            kept(c) == \E m \in collected \ args.excluded_markers :
                           Contains(c.name, m \o ": ")
        IN /\ SeqToSet(args.markers) = collected
           /\ expression_df.cols = SelectSeq(input_df.cols, kept)
           /\ ~HasColumn(expression_df, "Image")
           /\ \A x \in {"CD4", "CD45", "PDCD4"} \ collected :
                 \A i \in 1..Len(expression_df.cols) :
                     ~StartsAt(expression_df.cols[i].name, x \o ": ", 1)

\* C6: whatever other markers the table holds, no measurement column of an
\* excluded marker m (a column named "<m>: ...") is present in the output of
\* drop_markers.
C6_NoColumnOfExcludedMarker ==
    (pc = "returned" /\ variant = "unit") =>
        \A m \in args.excluded_markers :
            \A j \in 1..Len(expression_df.cols) :
                ~StartsAt(expression_df.cols[j].name, m \o ": ", 1)

(***************************************************************************)
(* convert_pixels_to_micrometre (cell type variant)                        *)
(***************************************************************************)
Raise(type, stage) == Some([type |-> type, stage |-> stage])

um_col(dim) == "Centroid " \o dim \o " µm"
px_col(dim) == "Centroid " \o dim \o " px"

\* a seeded fault: the caller's pixel_size is used
pixel_size_of_caller(pixel_size) == pixel_size

\* pixel_size = 0.3906  # fixed size (for now): the parameter is overwritten
pixel_size_used(pixel_size) == Rat(3906, 10000)

\* a seeded fault: every row is taken from the substitute
fillna_overwrite(a, b) == b

\* a.fillna(b), row by row
fillna(a, b) == [r \in 1..Len(a) |-> IF isnull(a[r]) THEN b[r] ELSE a[r]]

\* series * pixel_size
scale(a, ps) == [r \in 1..Len(a) |-> Mul(a[r], ps)]

\* expression_df.loc[:, name] = values: replaces the column, or appends it
SetCol(df, name, values) ==
    IF HasColumn(df, name)
    THEN DataFrame([i \in 1..Len(df.cols) |->
                       IF df.cols[i].name = name THEN Column(name, values) ELSE df.cols[i]])
    ELSE DataFrame(Append(df.cols, Column(name, values)))

\* a seeded fault: an axis without any centroid column is passed over
convert_dim_no_raise(df, dim, ps) ==
    LET um == um_col(dim)
        px == px_col(dim)
    IN IF HasColumn(df, um) /\ HasColumn(df, px)
       THEN [df |-> Series(Column(um, fillna(Col(df, um), scale(Col(df, px), ps)))),
             error |-> Raise("ValueError", "convert_pixels_to_micrometre")]
       ELSE IF ~HasColumn(df, um) /\ HasColumn(df, px)
       THEN [df |-> drop(SetCol(df, um, scale(Col(df, px), ps)), {px}),
             error |-> None]
       ELSE [df |-> df, error |-> None]

\* one pass of the loop over dim; [df, error] is the local expression_df and
\* the exception raised, if any
convert_dim(df, dim, ps) ==
    LET um == um_col(dim)
        px == px_col(dim)
    IN IF HasColumn(df, um) /\ HasColumn(df, px)
       THEN \* branch 1: expression_df is rebound to the filled Series, and
            \* Series.drop(..., axis=1) raises "No axis named 1"
            [df |-> Series(Column(um, fillna(Col(df, um), scale(Col(df, px), ps)))),
             error |-> Raise("ValueError", "convert_pixels_to_micrometre")]
       ELSE IF ~HasColumn(df, um) /\ HasColumn(df, px)
       THEN [df |-> drop(SetCol(df, um, scale(Col(df, px), ps)), {px}),
             error |-> None]
       ELSE IF HasColumn(df, um) /\ ~HasColumn(df, px)
       THEN [df |-> df, error |-> None]
       ELSE [df |-> df, error |-> Raise("RuntimeError", "convert_pixels_to_micrometre")]

convert_pixels_to_micrometre(df, pixel_size) ==
    LET ps == pixel_size_used(pixel_size)
        x == convert_dim(df, "X", ps)
    IN IF ~IsNone(x.error) THEN x ELSE convert_dim(x.df, "Y", ps)

(***************************************************************************)
(* SpecCoord: convert_pixels_to_micrometre on tables of centroid columns   *)
(***************************************************************************)
\* rows of a table handed to convert_pixels_to_micrometre
CoordRows == 2

\* the centroid columns one axis can come with: µm, px, both or none
AxisColumns(dim) ==
    LET
        PxValues == {NaN, Num(100)}
    IN
    LET
        UmValues == {NaN, Num(5)}
        ums == {<<Column(um_col(dim), v)>> : v \in [1..CoordRows -> UmValues]}
        pxs == {<<Column(px_col(dim), v)>> : v \in [1..CoordRows -> PxValues]}
    IN {<<>>} \cup ums \cup pxs \cup {u \o p : u \in ums, p \in pxs}

ImageColumn(n) == Column("Image", [r \in 1..n |-> Str("roi1")])

CoordInit ==
    LET
        PixelSizes == {Rat(3906, 10000), Rat(1, 2)}
    IN
    \E x \in AxisColumns("X"), y \in AxisColumns("Y"), ps \in PixelSizes :
        UnitInit("convert_pixels_to_micrometre",
                 DataFrame(<<ImageColumn(CoordRows)>> \o x \o y),
                 [pixel_size |-> ps])

Call_convert_pixels_to_micrometre ==
    /\ pc = "convert_pixels_to_micrometre"
    /\ LET r == convert_pixels_to_micrometre(expression_df, args.pixel_size)
       IN /\ expression_df' = r.df
          /\ error' = r.error
    /\ pc' = "returned"
    /\ UNCHANGED result
    /\ UNCHANGED UnitFrame

SpecCoord == CoordInit /\ [][Call_convert_pixels_to_micrometre]_vars

Dims == {"X", "Y"}
OnlyPx(df, dim) == HasColumn(df, px_col(dim)) /\ ~HasColumn(df, um_col(dim))
OnlyUm(df, dim) == HasColumn(df, um_col(dim)) /\ ~HasColumn(df, px_col(dim))
NoUnit(df, dim) == ~HasColumn(df, um_col(dim)) /\ ~HasColumn(df, px_col(dim))

\* 0.3906
MicronsPerPixel == Rat(3906, 10000)

\* C2: when an axis comes with both its µm and its px column (and the other
\* axis has a centroid column), the call returns the whole table: each missing
\* µm value of the axis is px * 0.3906, each other µm value and each other
\* column is as it was, and the px column is still there.
C2_BothUnitsFillMissing ==
    LET
        BothUnits(df, dim) == HasColumn(df, um_col(dim)) /\ HasColumn(df, px_col(dim))
    IN
    (pc = "returned" /\ variant = "unit") =>
        \A dim \in Dims :
            (BothUnits(input_df, dim) /\ \A o \in Dims : ~NoUnit(input_df, o)) =>
                /\ IsNone(error)
                /\ expression_df.type = "DataFrame"
                /\ HasColumn(expression_df, px_col(dim))
                /\ HasColumn(expression_df, um_col(dim))
                /\ Col(expression_df, "Image") = Col(input_df, "Image")
                /\ Col(expression_df, px_col(dim)) = Col(input_df, px_col(dim))
                /\ \A r \in 1..NRows(input_df) :
                      Col(expression_df, um_col(dim))[r] =
                          IF isnull(Col(input_df, um_col(dim))[r])
                          THEN Mul(Col(input_df, px_col(dim))[r], MicronsPerPixel)
                          ELSE Col(input_df, um_col(dim))[r]

\* C3: after a successful return, an axis that came with its px column only has
\* a µm column equal to px * 0.3906 in every row (whatever pixel_size was
\* passed) and no px column; an axis that came with its µm column only is
\* unchanged and has no px column; both µm columns exist and no other column
\* changed; a table with µm columns only is returned as it was.
C3_SingleUnitAxis ==
    (pc = "returned" /\ variant = "unit" /\ IsNone(error)) =>
        /\ expression_df.type = "DataFrame"
        /\ Col(expression_df, "Image") = Col(input_df, "Image")
        /\ \A dim \in Dims :
              /\ HasColumn(expression_df, um_col(dim))
              /\ OnlyPx(input_df, dim) =>
                    /\ ~HasColumn(expression_df, px_col(dim))
                    /\ \A r \in 1..NRows(input_df) :
                          Col(expression_df, um_col(dim))[r] =
                              Mul(Col(input_df, px_col(dim))[r], MicronsPerPixel)
              /\ OnlyUm(input_df, dim) =>
                    /\ ~HasColumn(expression_df, px_col(dim))
                    /\ Col(expression_df, um_col(dim)) = Col(input_df, um_col(dim))
        /\ (\A dim \in Dims : OnlyUm(input_df, dim)) => expression_df = input_df

\* pixel value 100 gives 39.06, with another pixel_size passed
C3_Witness ==
    /\ pc = "returned"
    /\ IsNone(error)
    /\ args.pixel_size = Rat(1, 2)
    /\ OnlyPx(input_df, "X")
    /\ OnlyUm(input_df, "Y")
    /\ Col(input_df, px_col("X")) = <<Num(100), NaN>>
    /\ Col(expression_df, um_col("X")) = <<Rat(3906, 100), NaN>>

(***************************************************************************)
(* preprocess_celltypecolumn                                               *)
(***************************************************************************)
\* Series.str.replace(pat, rep): missing values stay missing
str_replace(values, pat, rep) ==
    [r \in 1..Len(values) |->
        IF isnull(values[r]) THEN NaN ELSE Str(Replace(values[r].s, pat, rep))]

\* Series.replace(to_replace, value) for a list of labels and one value
replace_values(values, to_replace, value) ==
    [r \in 1..Len(values) |->
        IF ~isnull(values[r]) /\ values[r].s \in to_replace THEN Str(value) ELSE values[r]]

\* Series.unique()
unique(values) == {values[r] : r \in 1..Len(values)}

\* sorted(series.unique()) for a column without missing values
sorted_labels(values) == sorted({v.s : v \in unique(values)})

\* column name, if the table has it, rewritten by f; else the table as it is
\* (try: ... except KeyError: pass)
StripIfPresent(df, name, pat) ==
    IF HasColumn(df, name) THEN SetCol(df, name, str_replace(Col(df, name), pat, "")) ELSE df

ReplaceIfPresent(df, name, to_replace, value) ==
    IF HasColumn(df, name)
    THEN SetCol(df, name, replace_values(Col(df, name), to_replace, value)) ELSE df

\* bin/preprocess_cell_type_classification.py: returns the (in place) updated
\* table, found_cell_types, cell_types and the exception raised, if any
preprocess_celltypecolumn(df, cell_types_to_remove, change_to) ==
    LET stage == "preprocess_celltypecolumn"
        failed(d, type) == [df |-> d, found_cell_types |-> None, cell_types |-> None,
                            error |-> Raise(type, stage)]
    IN IF ~HasColumn(df, "Class") THEN failed(df, "KeyError")
       ELSE IF \A r \in 1..NRows(df) : isnull(Col(df, "Class")[r])
       THEN [df |-> df, found_cell_types |-> None, cell_types |-> None, error |-> None]
       ELSE LET d1 == StripIfPresent(df, "Class", "Edited: ")
                d2 == StripIfPresent(d1, "Name", "Edited: ")
                d3 == StripIfPresent(d2, "Class", "Immune cells: ")
                d4 == StripIfPresent(d3, "Name", "Immune cells: ")
                d5 == ReplaceIfPresent(d4, "Class", cell_types_to_remove, change_to)
                d6 == ReplaceIfPresent(d5, "Name", cell_types_to_remove, change_to)
            IN IF NaN \in unique(Col(d4, "Class"))
               THEN \* sorted() compares a float (NaN) with a str
                    failed(d4, "TypeError")
               ELSE [df |-> d6,
                     found_cell_types |-> Some(sorted_labels(Col(d4, "Class"))),
                     cell_types |-> Some(sorted_labels(Col(d6, "Class"))),
                     error |-> None]

\* scripts/preprocess-training-data.py: no guard on Class or Name
script_preprocess_celltypecolumn(df, cell_types_to_remove, change_to) ==
    LET stage == "preprocess_celltypecolumn"
        failed(d, type) == [df |-> d, found_cell_types |-> None, cell_types |-> None,
                            error |-> Raise(type, stage)]
        allnull(name) == \A r \in 1..NRows(df) : isnull(Col(df, name)[r])
    IN IF ~HasColumn(df, "Class") THEN failed(df, "KeyError")
       ELSE IF allnull("Class") THEN failed(df, "AttributeError")
       ELSE IF ~HasColumn(df, "Name") THEN failed(StripIfPresent(df, "Class", "Edited: "), "KeyError")
       ELSE IF allnull("Name") THEN failed(StripIfPresent(df, "Class", "Edited: "), "AttributeError")
       ELSE LET d1 == StripIfPresent(df, "Class", "Edited: ")
                d2 == StripIfPresent(d1, "Name", "Edited: ")
                d3 == StripIfPresent(d2, "Class", "Immune cells: ")
                d4 == StripIfPresent(d3, "Name", "Immune cells: ")
                d5 == ReplaceIfPresent(d4, "Class", cell_types_to_remove, change_to)
                d6 == ReplaceIfPresent(d5, "Name", cell_types_to_remove, change_to)
            IN IF NaN \in unique(Col(d4, "Class"))
               THEN failed(d4, "TypeError")
               ELSE [df |-> d6,
                     found_cell_types |-> Some(sorted_labels(Col(d4, "Class"))),
                     cell_types |-> Some(sorted_labels(Col(d6, "Class"))),
                     error |-> None]

(***************************************************************************)
(* save_encoded_labels                                                     *)
(***************************************************************************)
\* labels.replace({"Name": encoder}): a value that is a key of the encoder
\* becomes its index, any other value stays; with encoder None nothing changes
encode_labels(values, enc) ==
    [r \in 1..Len(values) |->
        IF ~IsNone(enc) /\ ~isnull(values[r]) /\ values[r].s \in DOMAIN Get(enc)
        THEN Num(Get(enc)[values[r].s]) ELSE values[r]]

\* [file, error]: the content written to <batch>_cell_type_labels.csv
save_encoded_labels(df, enc) ==
    IF ~HasColumn(df, "Name")
    THEN [file |-> None, error |-> Raise("KeyError", "save_encoded_labels")]
    ELSE [file |-> Some(<<Column("Name", encode_labels(Col(df, "Name"), enc))>>),
          error |-> None]

(***************************************************************************)
(* convert_pixels_to_micrometre (scripts variant), save_image_coordinate_columns *)
(***************************************************************************)
script_convert_dim(df, dim, ps) ==
    LET um == um_col(dim)
        px == px_col(dim)
        failed == [df |-> df, error |-> Raise("KeyError", "convert_pixels_to_micrometre")]
        \* the except branch
        from_px == IF HasColumn(df, px)
                   THEN [df |-> drop(SetCol(df, um, scale(Col(df, px), ps)), {px}),
                         error |-> None]
                   ELSE failed
    IN IF ~HasColumn(df, um) THEN from_px
       ELSE IF \A r \in 1..NRows(df) : ~isnull(Col(df, um)[r])
       THEN [df |-> df, error |-> None]
       ELSE IF HasColumn(df, px)
       THEN [df |-> SetCol(df, um, fillna(Col(df, um), scale(Col(df, px), ps))),
             error |-> None]
       ELSE \* the KeyError of the try lands in the bare except, which overwrites
            \* nothing and raises the same KeyError again
            failed

script_convert_pixels_to_micrometre(df, pixel_size) ==
    LET ps == pixel_size_used(pixel_size)
        x == script_convert_dim(df, "X", ps)
    IN IF ~IsNone(x.error) THEN x ELSE script_convert_dim(x.df, "Y", ps)

\* expression_df.loc[:, names] for a list of names: KeyError if one is missing;
\* otherwise the columns in list order
RECURSIVE loc_columns(_, _, _)
loc_columns(df, names, k) ==
    IF k > Len(names) THEN <<>>
    ELSE FilterCols(df.cols, {names[k]}, 1) \o loc_columns(df, names, k + 1)

save_image_coordinate_columns(df, additional_meta_data) ==
    LET image_coord_cols ==
            <<"Image", "Centroid X µm", "Centroid Y µm">> \o additional_meta_data
    IN IF \E k \in 1..Len(image_coord_cols) : ~HasColumn(df, image_coord_cols[k])
       THEN [file |-> None, error |-> Raise("KeyError", "save_image_coordinate_columns")]
       ELSE [file |-> Some(loc_columns(df, image_coord_cols, 1)), error |-> None]

(***************************************************************************)
(* remove_prefixes_underscores, imputation passes, compartment and         *)
(* statistic filters                                                       *)
(***************************************************************************)
remove_prefixes_underscores(df) ==
    DataFrame([i \in 1..Len(df.cols) |->
                  Column(Replace(Replace(df.cols[i].name, "Target:", ""), "_", " "),
                         df.cols[i].values)])

\* one pass of the loop over the columns, the table being updated in place;
\* [df, error]
RECURSIVE impute_from(_, _, _, _, _, _)
impute_from(df, names, k, keyword, substitute, stage) ==
    LET
        \* s.replace(pat, rep, 1)
        ReplaceFirst(s, pat, rep) == ReplaceFirstFrom(s, pat, rep, 1)
    IN
    IF k > Len(names) THEN [df |-> df, error |-> None]
    ELSE LET col == names[k]
             vals == Col(df, col)
             new_col == ReplaceFirst(col, keyword, substitute)
         IN IF (\E r \in 1..Len(vals) : isnull(vals[r])) /\ Contains(col, keyword)
            THEN IF ~HasColumn(df, new_col)
                 THEN [df |-> df, error |-> Raise("KeyError", stage)]
                 ELSE impute_from(SetCol(df, col, fillna(vals, Col(df, new_col))),
                                  names, k + 1, keyword, substitute, stage)
            ELSE impute_from(df, names, k + 1, keyword, substitute, stage)

\* a seeded fault: the pass leaves the table as it is and never raises
replace_cytoplasm_with_membrane_skipped(df) == [df |-> df, error |-> None]

replace_cytoplasm_with_membrane(df) ==
    impute_from(df, columns(df), 1, "Cytoplasm", "Membrane",
                "replace_cytoplasm_with_membrane")

use_cell_measurement(df) ==
    impute_from(df, columns(df), 1, "Nucleus", "Cell", "use_cell_measurement")

\* a seeded fault: a token is matched with ": " after it, as a marker is
cols_to_remove_augmented(df, tokens) ==
    {df.cols[i].name : i \in {j \in 1..Len(df.cols) :
        \E t \in tokens : Contains(df.cols[j].name, t \o ": ")}}

\* the columns whose name contains one of the tokens
cols_to_remove(df, tokens) ==
    {df.cols[i].name : i \in {j \in 1..Len(df.cols) :
        \E t \in tokens : Contains(df.cols[j].name, t)}}

remove_unwanted_compartments(df, unwanted_compartments) ==
    drop(df, cols_to_remove(df, unwanted_compartments))

remove_statistics(df, unwanted_stats) == drop(df, cols_to_remove(df, unwanted_stats))

(***************************************************************************)
(* functional marker variant: setup, binarize_and_save_fm,                 *)
(* one_hot_encode_cell_types, drop_markers                                 *)
(***************************************************************************)
\* the table read from the input file; [df, error]
setup(v, expression_mat_path, file) ==
    LET unsupported == [df |-> None, error |-> Raise("ValueError", "setup")]
        read(df) == [df |-> df, error |-> None]
    IN CASE v = "script" -> read(file)
         [] v = "celltype" ->
                IF expression_mat_path \in {".parquet", ".csv"} THEN read(file)
                ELSE unsupported
         [] v = "fm" ->
                IF expression_mat_path = ".parquet" THEN read(file)
                ELSE IF expression_mat_path = ".csv"
                THEN \* read_csv(..., index_col=0): the first column is the index
                     read(DataFrame(Tail(file.cols)))
                ELSE unsupported

\* a seeded fault: a row is encoded by looking its value up in the encoder
binarize_and_save_fm_by_encoder(df) ==
    LET binarized == Col(df, "Classification")
        labels == sorted_labels(binarized)
    IN IF Len(labels) < 2
       THEN [decoder_file |-> None, labels_file |-> None, encoder |-> None,
             decoder |-> None, error |-> Raise("IndexError", "binarize_and_save_fm")]
       ELSE LET dec == (1 :> labels[1]) @@ (0 :> labels[2])
            IN [decoder_file |-> Some(dec),
                labels_file |->
                    Some(<<Column("Classification",
                        [r \in 1..Len(binarized) |->
                            IF binarized[r].s = labels[1] THEN Num(1) ELSE Num(0)])>>),
                encoder |-> Some((labels[1] :> 1) @@ (labels[2] :> 0)),
                decoder |-> Some(dec),
                error |-> None]

\* [decoder_file, labels_file, encoder, decoder, error]
binarize_and_save_fm(df) ==
    LET stage == "binarize_and_save_fm"
        failed(type) == [decoder_file |-> None, labels_file |-> None, encoder |-> None,
                         decoder |-> None, error |-> Raise(type, stage)]
    IN IF ~HasColumn(df, "Classification") THEN failed("KeyError")
       ELSE LET binarized == Col(df, "Classification")
            IN IF NaN \in unique(binarized)
               THEN IF unique(binarized) = {NaN} THEN failed("IndexError")
                    ELSE failed("TypeError")
               ELSE LET labels == sorted_labels(binarized)
                    IN IF Len(labels) < 2 THEN failed("IndexError")
                       ELSE LET dec == (1 :> labels[1]) @@ (0 :> labels[2])
                                enc == (labels[1] :> 1) @@ (labels[2] :> 0)
                            IN [decoder_file |-> Some(dec),
                                labels_file |->
                                    Some(<<Column("Classification",
                                        [r \in 1..Len(binarized) |->
                                            IF Contains(binarized[r].s, "+")
                                            THEN Num(1) ELSE Num(0)])>>),
                                encoder |-> Some(enc),
                                decoder |-> Some(dec),
                                error |-> None]

\* LabelBinarizer().fit_transform(y): one column per class for three classes
\* or more, a single column for two classes (1 for the second) or one (all 0)
fit_transform(y) ==
    LET classes == sorted_labels(y)
    IN IF Len(classes) >= 3
       THEN [k \in 1..Len(classes) |->
                [r \in 1..Len(y) |-> IF y[r].s = classes[k] THEN Num(1) ELSE Num(0)]]
       ELSE <<[r \in 1..Len(y) |->
                IF Len(classes) = 2 /\ y[r].s = classes[2] THEN Num(1) ELSE Num(0)]>>

one_hot_encode_cell_types(df, ct) ==
    LET stage == "one_hot_encode_cell_types"
        failed(type) == [df |-> df, error |-> Raise(type, stage)]
    IN IF ~HasColumn(df, "Class") THEN failed("KeyError")
       ELSE IF NaN \in unique(Col(df, "Class")) THEN failed("ValueError")
       ELSE LET data == fit_transform(Col(df, "Class"))
            IN IF IsNone(ct) \/ Len(Get(ct)) # Len(data)
               THEN \* shape of passed values does not match the column names
                    failed("ValueError")
               ELSE [df |-> drop(DataFrame(df.cols \o
                                    [k \in 1..Len(data) |-> Column(Get(ct)[k], data[k])]),
                                 {"Class"}),
                     error |-> None]

\* [df, error]: the measurement columns followed by the one-hot columns, or the
\* measurement columns alone when a cell type is not a column
fm_drop_markers(df, mk, excluded_markers, ct) ==
    LET measurement == SelectCols(df, measurement_columns(df, mk, excluded_markers))
    IN IF IsNone(ct)
       THEN \* measurement_columns + None
            [df |-> df, error |-> Raise("TypeError", "drop_markers")]
       ELSE IF \A k \in 1..Len(Get(ct)) : HasColumn(df, Get(ct)[k])
       THEN [df |-> DataFrame(loc_columns(df, columns(measurement) \o Get(ct), 1)),
             error |-> None]
       ELSE [df |-> measurement, error |-> None]

(***************************************************************************)
(* Spec: preprocess_training_data, one step per stage, for the cell type   *)
(* pipeline ("celltype"), the functional marker pipeline ("fm") and the    *)
(* stand-alone script ("script")                                           *)
(***************************************************************************)
Pipelines == {"celltype", "fm", "script"}

\* every input table has three cells
Cells(a, b, c) == <<a, b, c>>

Classification == <<Column("Classification", Cells(Str("CD8+"), Str("CD8-"), Str("CD8+")))>>

\* the options a cell type run is started with
RunArgs(o, path, with_celltype) ==
    [expression_mat_path |-> path,
     cell_types_to_remove |-> o.cell_types_to_remove,
     change_to |-> "Other",
     additional_meta_data_to_keep |-> <<>>,
     unwanted_markers |-> o.unwanted_markers,
     unwanted_compartments |-> o.unwanted_compartments,
     unwanted_statistics |-> o.unwanted_statistics,
     with_celltype |-> with_celltype,
     output_format |-> o.output_format]

Start(v, file, a) ==
    /\ variant = v
    /\ pc = "setup"
    /\ args = a
    /\ input_df = file
    /\ expression_df = None
    /\ found_cell_types = None
    /\ cell_types = None
    /\ encoder = None
    /\ decoder = None
    /\ markers = None
    /\ disk = NoDisk
    /\ error = None
    /\ result = None

Init ==
    LET
        \* what a functional marker run adds: the Classification column, the file
        \* format, whether the file starts with an index column, and with_celltype
        FmOptions ==
            { [classification |-> Classification, path |-> ".parquet", index |-> FALSE,
               with_celltype |-> TRUE],
              [classification |-> Classification, path |-> ".parquet", index |-> FALSE,
               with_celltype |-> FALSE],
              [classification |-> Classification, path |-> ".csv", index |-> TRUE,
               with_celltype |-> TRUE],
              [classification |-> Classification, path |-> ".csv", index |-> FALSE,
               with_celltype |-> TRUE],
              [classification |->
                   <<Column("Classification", Cells(Str("CD8+"), Str("CD8+"), Str("CD8+")))>>,
               path |-> ".parquet", index |-> FALSE, with_celltype |-> TRUE],
              [classification |-> <<>>, path |-> ".parquet", index |-> FALSE,
               with_celltype |-> TRUE],
              [classification |-> Classification, path |-> ".tsv", index |-> FALSE,
               with_celltype |-> TRUE] }
    IN
    LET
        \* the options of a run
        Options ==
            { [cell_types_to_remove |-> {}, unwanted_markers |-> {},
               unwanted_compartments |-> {}, unwanted_statistics |-> {},
               output_format |-> "csv"],
              [cell_types_to_remove |-> {"Unknown"}, unwanted_markers |-> {"CD4"},
               unwanted_compartments |-> {"Nucleus"}, unwanted_statistics |-> {"Median"},
               output_format |-> "csv"],
              [cell_types_to_remove |-> {"Unknown"}, unwanted_markers |-> {"CD45"},
               unwanted_compartments |-> {"Cytoplasm"}, unwanted_statistics |-> {},
               output_format |-> "parquet"] }
    IN
    LET
        \* the measurement columns of an export
        MeasurementColumns ==
            { <<Column("CD4: Cell: Mean", Cells(Num(1), Num(2), Num(3))),
                Column("CD4: Nucleus: Mean", Cells(NaN, Num(2), Num(3))),
                Column("CD4: Cytoplasm: Median", Cells(NaN, NaN, Num(1))),
                Column("CD4: Membrane: Median", Cells(Num(4), Num(5), Num(6))),
                Column("CD45: Cell: Mean", Cells(Num(7), Num(8), Num(9)))>>,
              <<Column("Target:CD4: Cell: Mean", Cells(Num(1), NaN, Num(3))),
                Column("CD4: Cell: Mean", Cells(Num(3), Num(4), NaN)),
                Column("DNA_1: Cell: Mean", Cells(Num(2), Num(2), NaN)),
                Column("DNA 1: Cell: Mean", Cells(Num(4), NaN, NaN)),
                Column("CD45..Cell..Mean", Cells(Num(7), Num(8), Num(9)))>>,
              <<Column("CD4: Cell: Mean", Cells(Num(1), Num(2), Num(3))),
                Column("CD4: Cytoplasm: Median", Cells(NaN, Num(2), Num(1)))>> }
    IN
    LET
        \* the centroid columns of an export, X then Y
        CentroidColumns ==
            LET um(dim) == <<Column(um_col(dim), Cells(Num(5), Num(6), Num(7)))>>
                gap(dim) == <<Column(um_col(dim), Cells(Num(5), NaN, Num(7)))>>
                px(dim) == <<Column(px_col(dim), Cells(Num(100), Num(200), Num(300)))>>
            IN { um("X") \o um("Y"),
                 px("X") \o px("Y"),
                 gap("X") \o px("X") \o um("Y"),
                 um("X"),
                 px("Y") }
    IN
    LET
        \* the Class and Name columns of an export
        LabelColumns ==
            LET both(v) == <<Column("Class", v), Column("Name", v)>>
            IN { both(Cells(Str("Unknown"), Str("B cells"), Str("T cells"))),
                 both(Cells(Str("Edited: Unknown"), Str("Immune cells: B cells"), Str("T_cells"))),
                 both(Cells(Str("Unknown"), Str("B cells"), Str("B cells"))),
                 both(Cells(Str("B cells"), Str("B cells"), Str("B cells"))),
                 both(Cells(Str("B cells"), NaN, Str("Unknown"))),
                 <<Column("Class", Cells(Str("Unknown"), Str("B cells"), Str("B cells")))>>,
                 <<Column("Class", Cells(Str("Unknown"), Str("B cells"), Str("B cells"))),
                   Column("Name", Cells(Str("Unknown"), Str("B cells"), Str("T cells")))>>,
                 <<Column("Class", Cells(NaN, NaN, NaN)),
                   Column("Name", Cells(Str("PathCellObject"), Str("PathCellObject"),
                                        Str("PathCellObject")))>>,
                 <<Column("Name", Cells(Str("Unknown"), Str("B cells"), Str("B cells")))>> }
    IN
    \E l \in LabelColumns, c \in CentroidColumns, m \in MeasurementColumns, o \in Options :
        LET table == <<ImageColumn(3)>> \o l \o c \o m
        IN \/ Start("celltype", DataFrame(table), RunArgs(o, ".csv", FALSE))
           \/ \E path \in {".parquet", ".tsv"} :
                 /\ o.cell_types_to_remove = {}
                 /\ Start("celltype", DataFrame(table), RunArgs(o, path, FALSE))
           \/ Start("script", DataFrame(table), RunArgs(o, ".csv", FALSE))
           \/ \E f \in FmOptions :
                 Start("fm",
                       DataFrame((IF f.index
                                  THEN <<Column("", Cells(Num(0), Num(1), Num(2)))>>
                                  ELSE <<>>)
                                 \o <<ImageColumn(3)>> \o l \o f.classification \o c \o m),
                       RunArgs(o, f.path, f.with_celltype))

\* what no stage assigns
RunFrame == <<variant, args, input_df, result>>

\* the names of the files of a run, in its output folder
OutputFolder == "output_folder"
DecoderFile == "decoder.json"
LabelsFile == "cell_type_labels.csv"
BinarizedLabelsFile == "binarized_labels.csv"
ImagesFile == "images.csv"
FeatureFile(output_format) ==
    IF output_format = "parquet" THEN "preprocessed_input_data.parquet"
    ELSE "preprocessed_input_data.csv"

Step_setup ==
    /\ variant \in Pipelines
    /\ pc = "setup"
    /\ disk' = WriteFile(disk, OutputFolder, <<"directory">>)
    /\ LET r == setup(variant, args.expression_mat_path, input_df)
       IN /\ expression_df' = r.df
          /\ error' = r.error
          /\ pc' = IF ~IsNone(r.error) THEN "aborted"
                   ELSE IF variant = "script" THEN "preprocess_celltypecolumn"
                   ELSE "remove_dots"
    /\ UNCHANGED <<found_cell_types, cell_types, encoder, decoder, markers>>
    /\ UNCHANGED RunFrame

Step_remove_dots ==
    /\ variant \in Pipelines
    /\ pc = "remove_dots"
    /\ expression_df' = remove_dots(expression_df)
    /\ pc' = "preprocess_celltypecolumn"
    /\ UNCHANGED <<found_cell_types, cell_types, encoder, decoder, markers, disk, error>>
    /\ UNCHANGED RunFrame

Step_preprocess_celltypecolumn ==
    /\ variant \in Pipelines
    /\ pc = "preprocess_celltypecolumn"
    /\ LET r == IF variant = "script"
                THEN script_preprocess_celltypecolumn(
                         expression_df, args.cell_types_to_remove, args.change_to)
                ELSE preprocess_celltypecolumn(
                         expression_df, args.cell_types_to_remove, args.change_to)
       IN /\ expression_df' = r.df
          /\ error' = r.error
          /\ IF ~IsNone(r.error)
             THEN UNCHANGED <<found_cell_types, cell_types>>
             ELSE IF variant = "script"
             THEN \* cell_types, found_cell_types = preprocess_celltypecolumn(...)
                  /\ cell_types' = r.found_cell_types
                  /\ found_cell_types' = r.cell_types
             ELSE /\ found_cell_types' = r.found_cell_types
                  /\ cell_types' = r.cell_types
          /\ pc' = IF ~IsNone(r.error) THEN "aborted"
                   ELSE IF variant = "fm" THEN "binarize_and_save_fm"
                   ELSE "create_encoder_decoder"
    /\ UNCHANGED <<encoder, decoder, markers, disk>>
    /\ UNCHANGED RunFrame

Step_create_encoder_decoder ==
    /\ variant \in {"celltype", "script"}
    /\ pc = "create_encoder_decoder"
    /\ IF variant = "script" \/ (~IsNone(cell_types) /\ Len(Get(cell_types)) > 0)
       THEN LET r == create_encoder_decoder(Get(cell_types))
            IN /\ encoder' = Some(r.encoder)
               /\ decoder' = Some(r.decoder)
               /\ disk' = WriteFile(disk, DecoderFile, r.decoder)
       ELSE /\ encoder' = None
            /\ decoder' = None
            /\ UNCHANGED disk
    /\ pc' = "save_encoded_labels"
    /\ UNCHANGED <<expression_df, found_cell_types, cell_types, markers, error>>
    /\ UNCHANGED RunFrame

Step_binarize_and_save_fm ==
    /\ variant = "fm"
    /\ pc = "binarize_and_save_fm"
    /\ LET r == binarize_and_save_fm(expression_df)
       IN /\ error' = r.error
          /\ encoder' = r.encoder
          /\ decoder' = r.decoder
          /\ disk' = IF ~IsNone(r.error) THEN disk
                     ELSE WriteFile(WriteFile(disk, DecoderFile, Get(r.decoder_file)),
                                    BinarizedLabelsFile, Get(r.labels_file))
          /\ pc' = IF ~IsNone(r.error) THEN "aborted" ELSE "convert_pixels_to_micrometre"
    /\ UNCHANGED <<expression_df, found_cell_types, cell_types, markers>>
    /\ UNCHANGED RunFrame

Step_save_encoded_labels ==
    /\ variant \in {"celltype", "script"}
    /\ pc = "save_encoded_labels"
    /\ LET r == save_encoded_labels(expression_df, encoder)
       IN /\ error' = r.error
          /\ disk' = IF ~IsNone(r.error) THEN disk
                     ELSE WriteFile(disk, LabelsFile, Get(r.file))
          /\ pc' = IF ~IsNone(r.error) THEN "aborted" ELSE "convert_pixels_to_micrometre"
    /\ UNCHANGED <<expression_df, found_cell_types, cell_types, encoder, decoder, markers>>
    /\ UNCHANGED RunFrame

Step_convert_pixels_to_micrometre ==
    /\ variant \in Pipelines
    /\ pc = "convert_pixels_to_micrometre"
    /\ LET r == IF variant = "script"
                THEN script_convert_pixels_to_micrometre(expression_df, MicronsPerPixel)
                ELSE convert_pixels_to_micrometre(expression_df, MicronsPerPixel)
       IN /\ error' = r.error
          /\ expression_df' = IF ~IsNone(r.error) THEN expression_df ELSE r.df
          /\ pc' = IF ~IsNone(r.error) THEN "aborted" ELSE "save_image_coordinate_columns"
    /\ UNCHANGED <<found_cell_types, cell_types, encoder, decoder, markers, disk>>
    /\ UNCHANGED RunFrame

\* save_image_coordinate_columns, then the count of each Class value
Step_save_image_coordinate_columns ==
    /\ variant \in Pipelines
    /\ pc = "save_image_coordinate_columns"
    /\ LET r == save_image_coordinate_columns(expression_df,
                                              args.additional_meta_data_to_keep)
       IN /\ error' = r.error
          /\ disk' = IF ~IsNone(r.error) THEN disk
                     ELSE WriteFile(disk, ImagesFile, Get(r.file))
          /\ pc' = IF ~IsNone(r.error) THEN "aborted"
                   ELSE IF variant = "fm" THEN "one_hot_encode_cell_types"
                   ELSE "remove_prefixes_underscores"
    /\ UNCHANGED <<expression_df, found_cell_types, cell_types, encoder, decoder, markers>>
    /\ UNCHANGED RunFrame

\* if with_celltype: one_hot_encode_cell_types, else: drop Class
Step_one_hot_encode_cell_types ==
    /\ variant = "fm"
    /\ pc = "one_hot_encode_cell_types"
    /\ LET r == IF args.with_celltype
                THEN one_hot_encode_cell_types(expression_df, cell_types)
                ELSE [df |-> drop(expression_df, {"Class"}), error |-> None]
       IN /\ error' = r.error
          /\ expression_df' = r.df
          /\ pc' = IF ~IsNone(r.error) THEN "aborted" ELSE "remove_prefixes_underscores"
    /\ UNCHANGED <<found_cell_types, cell_types, encoder, decoder, markers, disk>>
    /\ UNCHANGED RunFrame

Step_remove_prefixes_underscores ==
    /\ variant \in Pipelines
    /\ pc = "remove_prefixes_underscores"
    /\ expression_df' = remove_prefixes_underscores(expression_df)
    /\ pc' = "remove_duplicate_columns"
    /\ UNCHANGED <<found_cell_types, cell_types, encoder, decoder, markers, disk, error>>
    /\ UNCHANGED RunFrame

Step_remove_duplicate_columns ==
    /\ variant \in Pipelines
    /\ pc = "remove_duplicate_columns"
    /\ expression_df' = remove_duplicate_columns(expression_df)
    /\ pc' = "collect_markers"
    /\ UNCHANGED <<found_cell_types, cell_types, encoder, decoder, markers, disk, error>>
    /\ UNCHANGED RunFrame

Step_collect_markers ==
    /\ variant \in Pipelines
    /\ pc = "collect_markers"
    /\ markers' = Some(collect_markers(expression_df))
    /\ pc' = "drop_markers"
    /\ UNCHANGED <<expression_df, found_cell_types, cell_types, encoder, decoder, disk,
                   error>>
    /\ UNCHANGED RunFrame

Step_drop_markers ==
    /\ variant \in Pipelines
    /\ pc = "drop_markers"
    /\ LET r == IF variant = "fm"
                THEN fm_drop_markers(expression_df, Get(markers), args.unwanted_markers,
                                     cell_types)
                ELSE [df |-> drop_markers(expression_df, Get(markers),
                                          args.unwanted_markers),
                      error |-> None]
       IN /\ error' = r.error
          /\ expression_df' = r.df
          /\ pc' = IF ~IsNone(r.error) THEN "aborted"
                   ELSE "replace_cytoplasm_with_membrane"
    /\ UNCHANGED <<found_cell_types, cell_types, encoder, decoder, markers, disk>>
    /\ UNCHANGED RunFrame

Step_replace_cytoplasm_with_membrane ==
    /\ variant \in Pipelines
    /\ pc = "replace_cytoplasm_with_membrane"
    /\ LET r == replace_cytoplasm_with_membrane(expression_df)
       IN /\ error' = r.error
          /\ expression_df' = r.df
          /\ pc' = IF ~IsNone(r.error) THEN "aborted" ELSE "use_cell_measurement"
    /\ UNCHANGED <<found_cell_types, cell_types, encoder, decoder, markers, disk>>
    /\ UNCHANGED RunFrame

Step_use_cell_measurement ==
    /\ variant \in Pipelines
    /\ pc = "use_cell_measurement"
    /\ LET r == use_cell_measurement(expression_df)
       IN /\ error' = r.error
          /\ expression_df' = r.df
          /\ pc' = IF ~IsNone(r.error) THEN "aborted" ELSE "remove_unwanted_compartments"
    /\ UNCHANGED <<found_cell_types, cell_types, encoder, decoder, markers, disk>>
    /\ UNCHANGED RunFrame

Step_remove_unwanted_compartments ==
    /\ variant \in Pipelines
    /\ pc = "remove_unwanted_compartments"
    /\ expression_df' = remove_unwanted_compartments(expression_df,
                                                     args.unwanted_compartments)
    /\ pc' = "remove_statistics"
    /\ UNCHANGED <<found_cell_types, cell_types, encoder, decoder, markers, disk, error>>
    /\ UNCHANGED RunFrame

Step_remove_statistics ==
    /\ variant \in Pipelines
    /\ pc = "remove_statistics"
    /\ expression_df' = remove_statistics(expression_df, args.unwanted_statistics)
    /\ pc' = "save_preprocessed_data"
    /\ UNCHANGED <<found_cell_types, cell_types, encoder, decoder, markers, disk, error>>
    /\ UNCHANGED RunFrame

Step_save_preprocessed_data ==
    /\ variant \in Pipelines
    /\ pc = "save_preprocessed_data"
    /\ disk' = WriteFile(disk,
                         FeatureFile(IF variant = "script" THEN "csv"
                                     ELSE args.output_format),
                         expression_df.cols)
    /\ pc' = "done"
    /\ UNCHANGED <<expression_df, found_cell_types, cell_types, encoder, decoder, markers,
                   error>>
    /\ UNCHANGED RunFrame

Next ==
    \/ Step_setup
    \/ Step_remove_dots
    \/ Step_preprocess_celltypecolumn
    \/ Step_create_encoder_decoder
    \/ Step_binarize_and_save_fm
    \/ Step_save_encoded_labels
    \/ Step_convert_pixels_to_micrometre
    \/ Step_save_image_coordinate_columns
    \/ Step_one_hot_encode_cell_types
    \/ Step_remove_prefixes_underscores
    \/ Step_remove_duplicate_columns
    \/ Step_collect_markers
    \/ Step_drop_markers
    \/ Step_replace_cytoplasm_with_membrane
    \/ Step_use_cell_measurement
    \/ Step_remove_unwanted_compartments
    \/ Step_remove_statistics
    \/ Step_save_preprocessed_data

Spec == Init /\ [][Next]_vars

(***************************************************************************)
(* Properties of a run                                                     *)
(***************************************************************************)
Categorical == {"celltype", "script"}

\* C1: in a categorical run the decoder on disk maps 0..N-1 to the working
\* labels (Class after prefix stripping and after replacing the excluded
\* labels) in alphabetical order, in the pipeline and in the script alike.
C1_DecoderFromWorkingLabels ==
    LET
        \* the distinct Class values of the input after prefix stripping and after
        \* replacing the excluded labels, sorted
        WorkingLabels(df, a) ==
            sorted_labels(
                replace_values(
                    str_replace(str_replace(Col(df, "Class"), "Edited: ", ""),
                                "Immune cells: ", ""),
                    a.cell_types_to_remove, a.change_to))
    IN
    (variant \in Categorical /\ DecoderFile \in DOMAIN disk) =>
        LET w == WorkingLabels(input_df, args)
        IN disk[DecoderFile] = [i \in 0..(Len(w) - 1) |-> w[i + 1]]

FeatureFiles == {FeatureFile("csv"), FeatureFile("parquet")}

\* C4: a categorical run on a table in which an axis has neither its µm nor
\* its px column never gets past the coordinate stage and never writes the
\* images file or the feature table; when the coordinate stage raises, the
\* label file and the decoder written before are on disk as they were written;
\* and a run that read a labelled table ends in just that way.
C4_MissingAxisAborts ==
    LET
        Readable == variant = "script" \/ args.expression_mat_path \in {".csv", ".parquet"}
    IN
    LET
        \* Class and Name are there and every cell of them is a label
        Labelled(df) ==
            \A name \in {"Class", "Name"} :
                /\ HasColumn(df, name)
                /\ \A r \in 1..NRows(df) : ~isnull(Col(df, name)[r])
    IN
    LET
        AxisMissing(df) == \E dim \in Dims : NoUnit(df, dim)
    IN
    (variant \in Categorical /\ AxisMissing(input_df)) =>
        /\ pc \in {"setup", "remove_dots", "preprocess_celltypecolumn",
                   "create_encoder_decoder", "save_encoded_labels",
                   "convert_pixels_to_micrometre", "aborted"}
        /\ ImagesFile \notin DOMAIN disk
        /\ FeatureFiles \cap DOMAIN disk = {}
        /\ (pc = "aborted" /\ Get(error).stage = "convert_pixels_to_micrometre") =>
              /\ LabelsFile \in DOMAIN disk
              /\ disk[LabelsFile] = Get(save_encoded_labels(expression_df, encoder).file)
              /\ ~IsNone(decoder) =>
                    DecoderFile \in DOMAIN disk /\ disk[DecoderFile] = Get(decoder)
        /\ (pc = "aborted" /\ Readable /\ Labelled(input_df)) =>
              /\ Get(error).stage = "convert_pixels_to_micrometre"
              /\ DecoderFile \in DOMAIN disk
              /\ LabelsFile \in DOMAIN disk

C4_Witness ==
    /\ variant = "celltype"
    /\ pc = "aborted"
    /\ error = Raise("RuntimeError", "convert_pixels_to_micrometre")
    /\ HasColumn(input_df, um_col("X"))
    /\ NoUnit(input_df, "Y")
    /\ DOMAIN disk = {OutputFolder, DecoderFile, LabelsFile}
    /\ disk[DecoderFile] = (0 :> "B cells" @@ 1 :> "Other" @@ 2 :> "T cells")
    /\ disk[LabelsFile] = <<Column("Name", Cells(Num(1), Num(0), Num(2)))>>

Distinct(names) ==
    \A i, j \in 1..Len(names) : i # j => names[i] # names[j]

ClassHasValues(df) ==
    /\ HasColumn(df, "Class")
    /\ \E r \in 1..NRows(df) : ~isnull(Col(df, "Class")[r])

LabelStages == {"preprocess_celltypecolumn", "create_encoder_decoder", "save_encoded_labels"}

\* C14: a cell type run on a table with Class values and no Name column does
\* not raise in the label stages, and when it is done the decoder, the images
\* file and the feature table are on disk.
C14_MissingNameSkipped ==
    (variant = "celltype" /\ ClassHasValues(input_df) /\ ~HasColumn(input_df, "Name")) =>
        /\ pc = "aborted" => Get(error).stage \notin LabelStages
        /\ pc = "done" =>
              /\ {DecoderFile, ImagesFile} \subseteq DOMAIN disk
              /\ FeatureFiles \cap DOMAIN disk # {}

\* C15: a cell type run on a table whose Class column is absent or holds no
\* value does not raise in the label stages; after them there are no found and
\* no working labels, no encoder and no decoder file, and a label file on disk
\* has no row.
C15_NoLabelsContinues ==
    (variant = "celltype" /\ ~ClassHasValues(input_df)) =>
        /\ pc = "aborted" => Get(error).stage \notin LabelStages
        /\ DecoderFile \notin DOMAIN disk
        /\ pc \notin {"setup", "remove_dots", "preprocess_celltypecolumn", "aborted"} =>
              /\ IsNone(found_cell_types)
              /\ IsNone(cell_types)
        /\ pc \notin {"setup", "remove_dots", "preprocess_celltypecolumn",
                      "create_encoder_decoder", "aborted"} => IsNone(encoder)
        /\ LabelsFile \in DOMAIN disk => Len(disk[LabelsFile][1].values) = 0

\* C16: for a table whose Class column has a value, a cell type run does not
\* raise in the label stages, and the label file has one row per row of the
\* table, in order, each holding an index of the decoder, the one whose label
\* is the cleaned Name of the row.
C16_LabelsEncoded ==
    LET
        \* the Name cell of row r after prefix stripping and replacement
        CleanedName(df, a, r) ==
            replace_values(
                str_replace(str_replace(Col(df, "Name"), "Edited: ", ""), "Immune cells: ", ""),
                a.cell_types_to_remove, a.change_to)[r]
    IN
    (variant = "celltype" /\ ClassHasValues(input_df) /\ HasColumn(input_df, "Name")) =>
        /\ pc = "aborted" => Get(error).stage \notin LabelStages
        /\ LabelsFile \in DOMAIN disk =>
              LET vals == disk[LabelsFile][1].values
              IN /\ Len(vals) = NRows(input_df)
                 /\ \A r \in 1..Len(vals) :
                       /\ DOMAIN vals[r] = {"n", "d"}
                       /\ vals[r].d = 1
                       /\ vals[r].n \in DOMAIN Get(decoder)
                       /\ Str(Get(decoder)[vals[r].n]) = CleanedName(input_df, args, r)

\* C17: a run of the cell type or of the functional marker pipeline on a path
\* that ends in neither .csv nor .parquet aborts in setup, and nothing is on
\* disk then.
C17_UnsupportedPathWritesNothing ==
    (variant \in {"celltype", "fm"}
        /\ args.expression_mat_path \notin {".csv", ".parquet"}) =>
        /\ pc \in {"setup", "aborted"}
        /\ pc = "aborted" => Get(error).stage = "setup" /\ DOMAIN disk = {}

(***************************************************************************)
(* preprocess_training_data as one function of the input file and the      *)
(* options: [disk, error], the artifacts on disk when the run ends         *)
(***************************************************************************)
\* remove_prefixes_underscores to save_preprocessed_data
feature_stages(v, df, ct, a, d) ==
    LET t == remove_duplicate_columns(remove_prefixes_underscores(df))
        mk == collect_markers(t)
        dm == IF v = "fm" THEN fm_drop_markers(t, mk, a.unwanted_markers, ct)
              ELSE [df |-> drop_markers(t, mk, a.unwanted_markers), error |-> None]
    IN IF ~IsNone(dm.error) THEN [disk |-> d, error |-> dm.error]
       ELSE LET r1 == replace_cytoplasm_with_membrane(dm.df)
            IN IF ~IsNone(r1.error) THEN [disk |-> d, error |-> r1.error]
               ELSE LET r2 == use_cell_measurement(r1.df)
                    IN IF ~IsNone(r2.error) THEN [disk |-> d, error |-> r2.error]
                       ELSE LET f == remove_statistics(
                                         remove_unwanted_compartments(
                                             r2.df, a.unwanted_compartments),
                                         a.unwanted_statistics)
                            IN [disk |-> WriteFile(d,
                                            FeatureFile(IF v = "script" THEN "csv"
                                                        ELSE a.output_format),
                                            f.cols),
                                error |-> None]

\* convert_pixels_to_micrometre to the one-hot encoding, then the rest
coordinate_stages(v, df, ct, a, d) ==
    LET c == IF v = "script" THEN script_convert_pixels_to_micrometre(df, MicronsPerPixel)
             ELSE convert_pixels_to_micrometre(df, MicronsPerPixel)
    IN IF ~IsNone(c.error) THEN [disk |-> d, error |-> c.error]
       ELSE LET im == save_image_coordinate_columns(c.df, a.additional_meta_data_to_keep)
            IN IF ~IsNone(im.error) THEN [disk |-> d, error |-> im.error]
               ELSE LET d3 == WriteFile(d, ImagesFile, Get(im.file))
                        oh == IF v = "fm" /\ a.with_celltype
                              THEN one_hot_encode_cell_types(c.df, ct)
                              ELSE IF v = "fm"
                              THEN [df |-> drop(c.df, {"Class"}), error |-> None]
                              ELSE [df |-> c.df, error |-> None]
                    IN IF ~IsNone(oh.error) THEN [disk |-> d3, error |-> oh.error]
                       ELSE feature_stages(v, oh.df, ct, a, d3)

\* the encoder, the decoder file and the label file, then the rest
label_stages(v, df, ct, a, d) ==
    IF v = "fm"
    THEN LET b == binarize_and_save_fm(df)
         IN IF ~IsNone(b.error) THEN [disk |-> d, error |-> b.error]
            ELSE coordinate_stages(v, df, ct, a,
                     WriteFile(WriteFile(d, DecoderFile, Get(b.decoder_file)),
                               BinarizedLabelsFile, Get(b.labels_file)))
    ELSE LET made == v = "script" \/ (~IsNone(ct) /\ Len(Get(ct)) > 0)
             enc == IF made THEN Some(create_encoder_decoder(Get(ct)).encoder) ELSE None
             d1 == IF made
                   THEN WriteFile(d, DecoderFile, create_encoder_decoder(Get(ct)).decoder)
                   ELSE d
             sl == save_encoded_labels(df, enc)
         IN IF ~IsNone(sl.error) THEN [disk |-> d1, error |-> sl.error]
            ELSE coordinate_stages(v, df, ct, a, WriteFile(d1, LabelsFile, Get(sl.file)))

preprocess_training_data(v, file, a) ==
    LET d0 == WriteFile(NoDisk, OutputFolder, <<"directory">>)
        s1 == setup(v, a.expression_mat_path, file)
    IN IF ~IsNone(s1.error) THEN [disk |-> d0, error |-> s1.error]
       ELSE LET p == IF v = "script"
                     THEN script_preprocess_celltypecolumn(
                              s1.df, a.cell_types_to_remove, a.change_to)
                     ELSE preprocess_celltypecolumn(
                              remove_dots(s1.df), a.cell_types_to_remove, a.change_to)
            IN IF ~IsNone(p.error) THEN [disk |-> d0, error |-> p.error]
               ELSE label_stages(v, p.df,
                                 IF v = "script" THEN p.found_cell_types ELSE p.cell_types,
                                 a, d0)

\* a run that has ended left on disk, and raised, what the function says
RunIsFunctionOfInput ==
    (variant \in Pipelines /\ pc \in {"done", "aborted"}) =>
        LET r == preprocess_training_data(variant, input_df, args)
        IN disk = r.disk /\ error = r.error

(***************************************************************************)
(* SpecCli: the comma-delimited options of scripts/main.py and of          *)
(* scripts/preprocess-training-data.py                                     *)
(***************************************************************************)
\* s.split(sep), the piece in progress starting at position start
RECURSIVE SplitFrom(_, _, _, _)
SplitFrom(s, sep, start, i) ==
    IF i > Len(s) THEN <<SubSeq(s, start, Len(s))>>
    ELSE IF StartsAt(s, sep, i)
    THEN <<SubSeq(s, start, i - 1)>> \o SplitFrom(s, sep, i + Len(sep), i + Len(sep))
    ELSE SplitFrom(s, sep, start, i + 1)

\* s.strip()
RECURSIVE strip(_)
strip(s) ==
    IF Len(s) > 0 /\ Char(s, 1) = " " THEN strip(SubSeq(s, 2, Len(s)))
    ELSE IF Len(s) > 0 /\ Char(s, Len(s)) = " " THEN strip(SubSeq(s, 1, Len(s) - 1))
    ELSE s

\* try: option.split(",") except: [] -- the option is None when not given;
\* scripts/main.py strips every piece, the stand-alone script does not
parse_list(entry, option) ==
    LET
        split(s, sep) == SplitFrom(s, sep, 1, 1)
    IN
    IF IsNone(option) THEN <<>>
    ELSE LET pieces == split(Get(option), ",")
         IN IF entry = "main" THEN [k \in 1..Len(pieces) |-> strip(pieces[k])]
            ELSE pieces

\* most markers named in one -m option
MaxCliMarkers == 2

\* the lists of distinct markers of at most n names
RECURSIVE MarkerLists(_)
MarkerLists(n) ==
    LET
        CliMarkers == {"dsDNA", "Beta-Tubulin", "CD39"}
    IN
    IF n = 0 THEN {<<>>}
    ELSE MarkerLists(n - 1)
         \cup {Append(l, m) : l \in {q \in MarkerLists(n - 1) : Len(q) = n - 1},
                              m \in CliMarkers}

\* the names joined by commas, each with the given padding around it
RECURSIVE Joined(_, _, _)
Joined(l, before, after) ==
    IF Len(l) = 0 THEN ""
    ELSE IF Len(l) = 1 THEN before \o l[1] \o after
    ELSE before \o l[1] \o after \o "," \o Joined(Tail(l), before, after)

CliInit ==
    LET
        CliTable ==
            DataFrame(<<ImageColumn(3),
                        Column("Class", Cells(Str("Unknown"), Str("B cells"), Str("T cells"))),
                        Column("Name", Cells(Str("Unknown"), Str("B cells"), Str("T cells"))),
                        Column(um_col("X"), Cells(Num(5), Num(6), Num(7))),
                        Column(um_col("Y"), Cells(Num(5), Num(6), Num(7))),
                        Column("dsDNA: Cell: Mean", Cells(Num(1), Num(2), Num(3))),
                        Column("Beta-Tubulin: Cell: Mean", Cells(Num(4), Num(5), Num(6))),
                        Column("CD39: Cell: Mean", Cells(Num(7), Num(8), Num(9))),
                        Column("CD4: Cell: Mean", Cells(Num(1), Num(1), Num(2)))>>)
    IN
    \E entry \in {"main", "script"}, l \in MarkerLists(MaxCliMarkers),
       before \in {"", " "}, after \in {"", " "} :
        /\ Len(l) > 0
        /\ \A i, j \in 1..Len(l) : i # j => l[i] # l[j]
        /\ UnitInit("main", CliTable,
                    [entry |-> entry,
                     unwanted_celltypes |-> Some("Unknown"),
                     unwanted_markers |-> Some(Joined(l, "", "")),
                     unwanted_markers_spaces |-> Some(Joined(l, before, after))])

\* the options preprocess_training_data is called with for a value of -m
CliArgs(entry, unwanted_celltypes, unwanted_markers) ==
    [expression_mat_path |-> ".csv",
     cell_types_to_remove |-> SeqToSet(parse_list(entry, unwanted_celltypes)),
     change_to |-> "Other",
     additional_meta_data_to_keep |-> <<>>,
     unwanted_markers |-> SeqToSet(parse_list(entry, unwanted_markers)),
     unwanted_compartments |-> {},
     unwanted_statistics |-> {},
     with_celltype |-> FALSE,
     output_format |-> "csv"]

\* the command of the entry point, run once for each of the two spellings of
\* the -m option
Call_main ==
    /\ pc = "main"
    /\ LET v == IF args.entry = "script" THEN "script" ELSE "celltype"
           run(m) == preprocess_training_data(
                         v, input_df, CliArgs(args.entry, args.unwanted_celltypes, m))
       IN result' = Some([base |-> run(args.unwanted_markers),
                          spaces |-> run(args.unwanted_markers_spaces)])
    /\ pc' = "returned"
    /\ UNCHANGED <<expression_df, error>>
    /\ UNCHANGED UnitFrame

SpecCli == CliInit /\ [][Call_main]_vars

\* C18: the same marker list given with and without blanks around its names
\* excludes the same markers and leaves the same feature table, label file,
\* images file and decoder, for scripts/preprocess-training-data.py as for
\* scripts/main.py.
C18_BlanksAroundMarkers ==
    (pc = "returned" /\ variant = "unit") =>
        /\ SeqToSet(parse_list(args.entry, args.unwanted_markers_spaces))
              = SeqToSet(parse_list(args.entry, args.unwanted_markers))
        /\ Get(result).spaces = Get(result).base

(***************************************************************************)
(* SpecPair: two cell type runs on the same input file                     *)
(***************************************************************************)
\* the options the two runs may differ in
PairOptions ==
    [cell_types_to_remove : {{}, {"Unknown"}},
     change_to : {"Other", "Misc"},
     unwanted_markers : {{}, {"CD4"}},
     unwanted_statistics : {{}, {"Median"}},
     additional_meta_data_to_keep : {<<>>, <<"Nucleus: Length µm">>, <<"Class">>}]

PairArgs(o) ==
    [expression_mat_path |-> ".csv",
     cell_types_to_remove |-> o.cell_types_to_remove,
     change_to |-> o.change_to,
     additional_meta_data_to_keep |-> o.additional_meta_data_to_keep,
     unwanted_markers |-> o.unwanted_markers,
     unwanted_compartments |-> {},
     unwanted_statistics |-> o.unwanted_statistics,
     with_celltype |-> FALSE,
     output_format |-> "csv"]

PairInit ==
    LET
        PairTables ==
            LET labels(v) == <<Column("Class", v), Column("Name", v)>>
                length == <<Column("Nucleus: Length µm", Cells(Num(3), Num(4), Num(5)))>>
            IN {DataFrame(<<ImageColumn(3)>> \o l \o c \o length \o m) :
                    l \in {labels(Cells(Str("Unknown"), Str("B cells"), Str("T cells"))),
                           labels(Cells(Str("Edited: Unknown"), Str("Immune cells: B cells"),
                                        Str("B cells")))},
                    c \in {<<Column(um_col("X"), Cells(Num(5), Num(6), Num(7))),
                             Column(um_col("Y"), Cells(Num(5), Num(6), Num(7)))>>,
                           <<Column(px_col("X"), Cells(Num(100), Num(200), Num(300))),
                             Column(px_col("Y"), Cells(Num(100), Num(200), Num(300)))>>},
                    m \in {<<Column("CD4: Cell: Mean", Cells(Num(1), Num(2), Num(3))),
                             Column("CD4: Nucleus: Mean", Cells(NaN, Num(2), Num(3))),
                             Column("CD45: Cell: Mean", Cells(Num(7), Num(8), Num(9))),
                             Column("CD45: Cell: Median", Cells(Num(7), Num(7), Num(9)))>>}}
    IN
    \E v \in Categorical, t \in PairTables, o1 \in PairOptions, o2 \in PairOptions :
        /\ o1.change_to = "Other"
        /\ o1.unwanted_statistics = {}
        /\ o1.additional_meta_data_to_keep # <<"Class">>
        /\ UnitInit("preprocess_training_data", t,
                    [v |-> v, first |-> PairArgs(o1), second |-> PairArgs(o2)])

Call_preprocess_training_data_twice ==
    /\ pc = "preprocess_training_data"
    /\ result' = Some([first |-> preprocess_training_data(args.v, input_df, args.first),
                       second |-> preprocess_training_data(args.v, input_df, args.second)])
    /\ pc' = "returned"
    /\ UNCHANGED <<expression_df, error>>
    /\ UNCHANGED UnitFrame

SpecPair == PairInit /\ [][Call_preprocess_training_data_twice]_vars

\* the content of a file of a run, None when the run did not write it
Artifact(run, f) == IF f \in DOMAIN run.disk THEN Some(run.disk[f]) ELSE None

\* the two runs were given the same values for the listed options
SameOptions(names) == \A n \in names : args.first[n] = args.second[n]

SameArtifact(f) == Artifact(Get(result).first, f) = Artifact(Get(result).second, f)

CallOrder ==
    <<"setup", "remove_dots", "preprocess_celltypecolumn", "create_encoder_decoder",
      "save_encoded_labels", "binarize_and_save_fm", "convert_pixels_to_micrometre",
      "save_image_coordinate_columns", "one_hot_encode_cell_types",
      "remove_prefixes_underscores", "remove_duplicate_columns", "collect_markers",
      "drop_markers", "replace_cytoplasm_with_membrane", "use_cell_measurement",
      "remove_unwanted_compartments", "remove_statistics", "save_preprocessed_data",
      "done">>

Position(stage) == CHOOSE i \in 1..Len(CallOrder) : CallOrder[i] = stage

\* the component a call belongs to: 1 column normalizer, 2 duplicate column
\* merger, 3 label processor, 4 coordinate unit resolver, 5 compartment
\* imputer, 6 marker, compartment and statistic filter; 0 for the other calls
Component(stage) ==
    CASE stage = "remove_dots" -> 1
      [] stage = "remove_duplicate_columns" -> 2
      [] stage \in {"preprocess_celltypecolumn", "create_encoder_decoder",
                    "save_encoded_labels", "binarize_and_save_fm"} -> 3
      [] stage \in {"convert_pixels_to_micrometre", "save_image_coordinate_columns"} -> 4
      [] stage \in {"replace_cytoplasm_with_membrane", "use_cell_measurement"} -> 5
      [] stage \in {"drop_markers", "remove_unwanted_compartments",
                    "remove_statistics"} -> 6
      [] OTHER -> 0

\* the label file of the pipeline
LabelFileOf(v) == IF v = "fm" THEN BinarizedLabelsFile ELSE LabelsFile

\* C20 (as the code runs): every step of a run either aborts it or moves to a
\* later call of the body of preprocess_training_data, whose order is column
\* normalizer, label processor, coordinate unit resolver, duplicate column
\* merger, marker filter, compartment imputer, compartment filter, statistic
\* filter: when the merger begins the label file and the images file are
\* already written, and when an imputation pass begins the marker filter has
\* already removed the centroid columns from a table of distinct names.
C20_CallOrder ==
    [][/\ pc' = "aborted" \/ Position(pc) < Position(pc')
       /\ pc' = "remove_duplicate_columns" =>
             /\ LabelFileOf(variant) \in DOMAIN disk'
             /\ ImagesFile \in DOMAIN disk'
       /\ Component(pc') = 5 =>
             /\ ~HasColumn(expression_df', um_col("X"))
             /\ ~HasColumn(expression_df', um_col("Y"))
             /\ Distinct([i \in 1..Len(expression_df'.cols) |->
                            expression_df'.cols[i].name])
       /\ (Component(pc') = 6 /\ pc' # "drop_markers") => Component(pc) \in {5, 6}]_vars

\* a functional marker run with an excluded marker and colliding column names
\* that has reached the second imputation pass
C20_Witness ==
    /\ variant = "fm"
    /\ pc = "use_cell_measurement"
    /\ args.unwanted_markers # {}
    /\ HasColumn(input_df, "DNA_1: Cell: Mean")
    /\ HasColumn(input_df, "DNA 1: Cell: Mean")
    /\ ImagesFile \in DOMAIN disk
    /\ BinarizedLabelsFile \in DOMAIN disk
    /\ ~HasColumn(expression_df, um_col("X"))
    /\ Len(expression_df.cols) > 0

\* C20 (as stated): the components run in the order of their numbers, so no
\* step moves from a component to a lower-numbered one, the merger begins
\* before any label file or images file is written, and an imputation pass
\* begins on a table from which no filter has yet removed the centroid columns.
C20_SpecOrder ==
    [][/\ (Component(pc) # 0 /\ Component(pc') # 0) => Component(pc) <= Component(pc')
       /\ pc' = "remove_duplicate_columns" =>
             /\ LabelFileOf(variant) \notin DOMAIN disk'
             /\ ImagesFile \notin DOMAIN disk'
       /\ Component(pc') = 5 =>
             /\ HasColumn(expression_df', um_col("X"))
             /\ HasColumn(expression_df', um_col("Y"))]_vars

C22_LabelsStrippedThenReplaced ==
    [][(/\ variant \in {"celltype", "fm"}
        /\ pc = "preprocess_celltypecolumn"
        /\ HasColumn(expression_df, "Class")
        /\ \E r \in 1..NRows(expression_df) : ~isnull(Col(expression_df, "Class")[r])) =>
          LET raw == Col(expression_df, "Class")
              stripped == str_replace(str_replace(raw, "Edited: ", ""), "Immune cells: ", "")
              found == {stripped[r].s : r \in 1..Len(raw)}
              excluded == args.cell_types_to_remove
              IsSorted(q, S) == /\ SeqToSet(q) = S
                                /\ \A i, j \in 1..Len(q) : i < j => StrLess(q[i], q[j])
          IN /\ IsNone(error')
             /\ IsSorted(Get(found_cell_types'), found)
             /\ \A r \in 1..Len(raw) :
                   Col(expression_df', "Class")[r] =
                       IF stripped[r].s \in excluded THEN Str(args.change_to)
                       ELSE stripped[r]
             /\ IsSorted(Get(cell_types'),
                         (found \ excluded) \cup
                             (IF found \cap excluded # {} THEN {args.change_to} ELSE {}))]_vars

(***************************************************************************)
(* SpecBin: binarize_and_save_fm on a Classification column                *)
(***************************************************************************)
BinInit ==
    \E a, b, c \in {"CD8+", "CD8-", "A-", "B+", "x+y+", "x+y-"} :
        UnitInit("binarize_and_save_fm",
                 DataFrame(<<ImageColumn(3),
                             Column("Classification", Cells(Str(a), Str(b), Str(c)))>>),
                 <<>>)

Call_binarize_and_save_fm ==
    /\ pc = "binarize_and_save_fm"
    /\ result' = Some(binarize_and_save_fm(expression_df))
    /\ pc' = "returned"
    /\ UNCHANGED <<expression_df, error>>
    /\ UNCHANGED UnitFrame

SpecBin == BinInit /\ [][Call_binarize_and_save_fm]_vars

\* C23: on a Classification column with exactly two distinct values
\* binarize_and_save_fm returns, the decoder it writes maps 1 to the
\* alphabetically first value and 0 to the second, and the label file has, row
\* by row, 1 where the raw value contains "+" and 0 elsewhere.
C23_DecoderSortedRowsByPlus ==
    LET raw == Col(input_df, "Classification")
        values == {raw[r].s : r \in 1..Len(raw)}
    IN (pc = "returned" /\ Cardinality(values) = 2) =>
          LET r == Get(result)
              first == CHOOSE v \in values : \A w \in values \ {v} : StrLess(v, w)
              second == CHOOSE v \in values : v # first
          IN /\ IsNone(r.error)
             /\ Get(r.decoder_file) = (1 :> first) @@ (0 :> second)
             /\ Len(Get(r.labels_file)) = 1
             /\ Get(r.labels_file)[1].values =
                    [i \in 1..Len(raw) |->
                        IF Contains(raw[i].s, "+") THEN Num(1) ELSE Num(0)]

\* the decoder gives 1 to "A-", and the rows holding "A-" are written as 0
C23_Witness ==
    /\ pc = "returned"
    /\ Col(input_df, "Classification") = Cells(Str("B+"), Str("A-"), Str("B+"))
    /\ Get(Get(result).decoder_file)[1] = "A-"
    /\ Get(Get(result).labels_file)[1].values = Cells(Num(1), Num(0), Num(1))

\* C29: when the two distinct values of the Classification column are a stem
\* followed by "+" and the same stem followed by "-", the decoder written maps
\* the code of each value (1 if it contains "+", else 0) back to that value.
C29_DecoderAgreesWithRows ==
    LET raw == Col(input_df, "Classification")
        values == {raw[r].s : r \in 1..Len(raw)}
        stem(v) == SubSeq(v, 1, Len(v) - 1)
        encode(v) == IF Contains(v, "+") THEN 1 ELSE 0
    IN (/\ pc = "returned"
        /\ \E v, w \in values : /\ values = {v, w}
                                /\ stem(v) = stem(w)
                                /\ v = stem(v) \o "+"
                                /\ w = stem(w) \o "-") =>
          /\ IsNone(Get(result).error)
          /\ \A v \in values : Get(Get(result).decoder_file)[encode(v)] = v

(***************************************************************************)
(* SpecColumns: the two imputation passes and the compartment and          *)
(* statistic filters, each called on a table of measurements               *)
(***************************************************************************)
ColumnsInit ==
    LET gaps == {<<NaN, NaN>>, <<NaN, Num(1)>>, <<Num(1), NaN>>, <<Num(1), Num(1)>>}
        membrane == {<<>>,
                     <<Column("CD4: Membrane: Mean", <<Num(2), Num(2)>>)>>,
                     <<Column("CD4: Membrane: Mean", <<NaN, Num(2)>>)>>}
        nucleus == {<<NaN, Num(3)>>, <<Num(3), Num(3)>>}
        cell == {<<>>, <<Column("Cell: CD4: Nucleus", <<Num(4), Num(4)>>)>>}
        Tables == {DataFrame(<<Column("CD4: Cytoplasm: Mean", g)>> \o m
                             \o <<Column("Nucleus: CD4: Nucleus", n),
                                  Column("Nucleus: CD4: Cell", <<Num(5), Num(5)>>)>> \o c
                             \o <<Column("CD45: Cell: Mean", <<NaN, Num(6)>>)>>) :
                       g \in gaps, m \in membrane, n \in nucleus, c \in cell}
    IN \E t \in Tables :
          \/ \E fn \in {"replace_cytoplasm_with_membrane", "use_cell_measurement"} :
                UnitInit(fn, t, <<>>)
          \/ \E fn \in {"remove_unwanted_compartments", "remove_statistics"},
                tokens \in SUBSET {"Cell", "Mean", "Membrane"} :
                UnitInit(fn, t, [tokens |-> tokens])

Call_replace_cytoplasm_with_membrane ==
    /\ pc = "replace_cytoplasm_with_membrane"
    /\ LET r == replace_cytoplasm_with_membrane(expression_df)
       IN result' = Some([fn |-> pc, df |-> r.df, error |-> r.error])
    /\ pc' = "returned"
    /\ UNCHANGED <<expression_df, error>>
    /\ UNCHANGED UnitFrame

Call_use_cell_measurement ==
    /\ pc = "use_cell_measurement"
    /\ LET r == use_cell_measurement(expression_df)
       IN result' = Some([fn |-> pc, df |-> r.df, error |-> r.error])
    /\ pc' = "returned"
    /\ UNCHANGED <<expression_df, error>>
    /\ UNCHANGED UnitFrame

Call_remove_unwanted_compartments ==
    /\ pc = "remove_unwanted_compartments"
    /\ result' = Some([fn |-> pc,
                       df |-> remove_unwanted_compartments(expression_df, args.tokens),
                       error |-> None])
    /\ pc' = "returned"
    /\ UNCHANGED <<expression_df, error>>
    /\ UNCHANGED UnitFrame

Call_remove_statistics ==
    /\ pc = "remove_statistics"
    /\ result' = Some([fn |-> pc,
                       df |-> remove_statistics(expression_df, args.tokens),
                       error |-> None])
    /\ pc' = "returned"
    /\ UNCHANGED <<expression_df, error>>
    /\ UNCHANGED UnitFrame

SpecColumns ==
    ColumnsInit /\ [][\/ Call_replace_cytoplasm_with_membrane
                      \/ Call_use_cell_measurement
                      \/ Call_remove_unwanted_compartments
                      \/ Call_remove_statistics]_vars

\* C24: remove_unwanted_compartments and remove_statistics return the columns
\* of the table whose name contains none of the tokens, with their values and
\* in their order, and nothing else; with no token the table comes back as it
\* was.
C24_FiltersDropBySubstring ==
    (pc = "returned"
        /\ Get(result).fn \in {"remove_unwanted_compartments", "remove_statistics"}) =>
        LET kept(c) == \A t \in args.tokens : ~Contains(c.name, t)
        IN /\ Get(result).df.cols = SelectSeq(input_df.cols, kept)
           /\ args.tokens = {} => Get(result).df = input_df

\* tokens Mean and Cell: only "Nucleus: CD4: Nucleus" is left, although no
\* name contains "Mean: "
C24_Witness ==
    /\ pc = "returned"
    /\ Get(result).fn = "remove_statistics"
    /\ args.tokens = {"Mean", "Cell"}
    /\ HasColumn(input_df, "Cell: CD4: Nucleus")
    /\ columns(Get(result).df) = <<"Nucleus: CD4: Nucleus">>
    /\ Col(Get(result).df, "Nucleus: CD4: Nucleus") = Col(input_df, "Nucleus: CD4: Nucleus")

\* C25: when an imputation pass returns, a column whose name contains the
\* keyword (Cytoplasm, resp. Nucleus) and that had a missing value has, in each
\* row that was missing, the value of that row in the column named with the
\* first occurrence of the keyword replaced (by Membrane, resp. Cell), and so
\* stays missing exactly where that value is missing; every other value of the
\* table, and the names and order of the columns, are as they were.
C25_MissingRowsFromSubstitute ==
    (pc = "returned" /\ IsNone(Get(result).error)
        /\ Get(result).fn \in {"replace_cytoplasm_with_membrane", "use_cell_measurement"}) =>
        LET keyword == IF Get(result).fn = "use_cell_measurement" THEN "Nucleus"
                       ELSE "Cytoplasm"
            substitute == IF keyword = "Nucleus" THEN "Cell" ELSE "Membrane"
            before == input_df.cols
            after == Get(result).df.cols
            missing(c) == \E r \in 1..Len(c.values) : isnull(c.values[r])
        IN /\ Len(after) = Len(before)
           /\ \A i \in 1..Len(before) :
                 /\ after[i].name = before[i].name
                 /\ \A r \in 1..Len(before[i].values) :
                       after[i].values[r] =
                           IF /\ Contains(before[i].name, keyword)
                              /\ missing(before[i])
                              /\ isnull(before[i].values[r])
                           THEN Col(input_df, ReplaceFirstFrom(before[i].name, keyword,
                                                               substitute, 1))[r]
                           ELSE before[i].values[r]

\* use_cell_measurement fills "Nucleus: CD4: Nucleus" from "Cell: CD4: Nucleus"
\* (not from "Nucleus: CD4: Cell") and leaves the gap of "CD4: Cytoplasm: Mean"
C25_Witness ==
    /\ pc = "returned"
    /\ Get(result).fn = "use_cell_measurement"
    /\ IsNone(Get(result).error)
    /\ Col(input_df, "Nucleus: CD4: Nucleus") = <<NaN, Num(3)>>
    /\ Col(Get(result).df, "Nucleus: CD4: Nucleus") = <<Num(4), Num(3)>>
    /\ Col(input_df, "CD4: Cytoplasm: Mean") = <<NaN, Num(1)>>
    /\ Col(Get(result).df, "CD4: Cytoplasm: Mean") = <<NaN, Num(1)>>

\* C26: an imputation pass raises KeyError exactly when some column whose name
\* contains the keyword has a missing value and the table has no column of the
\* substitute name; so a column with the keyword and without a missing value
\* never makes the pass fail, whether or not its substitute exists.
C26_MissingSubstituteRaises ==
    (pc = "returned"
        /\ Get(result).fn \in {"replace_cytoplasm_with_membrane", "use_cell_measurement"}) =>
        LET keyword == IF Get(result).fn = "use_cell_measurement" THEN "Nucleus"
                       ELSE "Cytoplasm"
            substitute == IF keyword = "Nucleus" THEN "Cell" ELSE "Membrane"
            needs(c) == /\ Contains(c.name, keyword)
                        /\ \E r \in 1..Len(c.values) : isnull(c.values[r])
            lacking == {i \in 1..Len(input_df.cols) :
                           /\ needs(input_df.cols[i])
                           /\ ~HasColumn(input_df,
                                         ReplaceFirstFrom(input_df.cols[i].name, keyword,
                                                          substitute, 1))}
        IN /\ lacking # {} => Get(result).error = Raise("KeyError", Get(result).fn)
           /\ lacking = {} => IsNone(Get(result).error)

\* replace_cytoplasm_with_membrane raises on a table without the Membrane
\* column and with a gap in the Cytoplasm column
C26_Witness ==
    /\ pc = "returned"
    /\ Get(result).fn = "replace_cytoplasm_with_membrane"
    /\ ~HasColumn(input_df, "CD4: Membrane: Mean")
    /\ Col(input_df, "CD4: Cytoplasm: Mean") = <<Num(1), NaN>>
    /\ Get(result).error = Raise("KeyError", "replace_cytoplasm_with_membrane")

(***************************************************************************)
(* Cell type indicators of the functional marker pipeline                  *)
(***************************************************************************)
\* C28: in a functional marker run with with_celltype set, the one-hot step
\* does not raise, and the table leaving the marker filter has, for every
\* working label, a column of that name holding 0 or 1, with exactly one 1 in
\* each row, in the column of the row's Class; without with_celltype the table
\* leaving the marker filter has no Class column and no column named after a
\* working label.
C28_OneIndicatorPerLabel ==
    [][(variant = "fm" /\ pc \in {"one_hot_encode_cell_types", "drop_markers"}) =>
          LET labels == SeqToSet(Get(cell_types))
              out == expression_df'
              class == replace_values(
                           str_replace(str_replace(Col(input_df, "Class"), "Edited: ", ""),
                                       "Immune cells: ", ""),
                           args.cell_types_to_remove, args.change_to)
          IN /\ IsNone(error')
             /\ (pc = "drop_markers" /\ args.with_celltype) =>
                   /\ \A l \in labels : HasColumn(out, l)
                   /\ \A r \in 1..NRows(out) : \A l \in labels :
                         Col(out, l)[r] = IF class[r].s = l THEN Num(1) ELSE Num(0)
             /\ (pc = "drop_markers" /\ ~args.with_celltype) =>
                   /\ ~HasColumn(out, "Class")
                   /\ \A l \in labels : ~HasColumn(out, l)]_vars

====
